---- MODULE Spec2Model ----
(***************************************************************************)
(* Report gateway: cache policy resolution, pagination, the read path      *)
(* (services/report_service.py, api_v3.py) and the snapshot refreshers     *)
(* (cache_refresher/full_report_refresher.py, cache_refresher.py) over a   *)
(* shared Redis store.                                                     *)
(***************************************************************************)
EXTENDS Integers, Sequences, FiniteSets, TLC

VARIABLES
    pcfg,       \* resolve_cache_policy: the cfg argument
    pres,       \* resolve_cache_policy: outcome ("unset" before the call)
    pvariant,   \* which module's resolve_cache_policy was called
    pgVariant,  \* pagination: which paginator is exercised
    pgN,        \* pagination: number of rows of the table
    pgP,        \* pagination: page_size argument
    pgK,        \* pagination: next page of the walk over pages 1..ceil(N/P)
    pgAcc,      \* pagination: concatenation of the pages walked so far
    pgPhase,    \* pagination: "walk", "walked" or "asked"
    pgPage,     \* pagination: page argument of the single request
    pgLast,     \* pagination: result of the single request
    cache,      \* Redis: data key -> pickled frame, or Absent
    meta,       \* Redis: "<report>:meta" -> metadata record, or MetaAbsent
    srcVer,     \* version of the data the sources hold now
    hist,       \* history: data key -> versions ever written under it
    rfPc,       \* refresh_full_reports: position in the function
    rfRun,      \* number of refresh runs started so far
    rfInput,    \* refresh_full_reports: the report_names argument
    rfResult,   \* refresh_full_reports: the result dictionary
    rfEligible, \* refresh_full_reports: to_process as first computed
    rfQueue,    \* refresh_full_reports: reports of to_process still to do
    rfCur,      \* refresh_full_reports: report_name of the loop
    rfTypes,    \* refresh_full_reports: info_types still to do
    rfMeta,     \* refresh_full_reports: refreshed_meta["info_types"]
    rfErrs,     \* refresh_full_reports: errors_for_report
    rfExc,      \* refresh_full_reports: an exception is propagating
    rfConn,     \* refresh_full_reports: conn (0 = unbound)
    connOpened, \* connections created by the current run
    connClosed, \* close() calls made by the current run
    fetchConns, \* connections the fetches of the current run used
    rfLog,      \* outcome of each info_type step of the current run
    rdPc,       \* read request: "idle", "looked" or "responded"
    rdReq,      \* read request: handler, report, info_type, page, agency
    rdDf,       \* read request: what the cache lookup returned
    rdLive,     \* read request: live fetch calls made
    rdReads,    \* read request: cache GETs made
    rdAfter,    \* read request: it began after a refresh of its key returned
    rdResp,     \* read request: the response
    active,     \* Redis: "<report>:<agency>" -> pickled frame, or Absent
    backup,     \* Redis: "backup:<report>:<agency>" -> frame, or Absent
    smPc,       \* refresh_report_smart: position in the function
    smRun,      \* number of smart refreshes started so far
    smReport,   \* refresh_report_smart: report_name
    smTodo,     \* refresh_report_smart: agencies whose worker has not run
    smBatch,    \* redis_batch.operations
    smQueue,    \* promote_backup_to_active_batch: commands queued in pipe
    smHist,     \* history: active key -> frames ever promoted to it
    gtKey,      \* cache GET: the key of the last GET
    gtVal,      \* cache GET: what it returned
    gtWritten,  \* cache GET: the key had been written before the GET
    epRun,      \* refresh_single: the refresh run last answered
    epName,     \* refresh_single: report_name of the last answer
    epStatus,   \* refresh_single: HTTP status of the last answer
    gcSem,      \* global_conn_mgr.semaphore: free slots
    gcCount,    \* global_conn_mgr.current_count
    plCreated,  \* SmartConnectionPool of each report: created_connections
    plIdle,     \* SmartConnectionPool of each report: connections in pool
    plLock,     \* SmartConnectionPool of each report: holder of lock, or 0
    wkPc,       \* worker thread: position in fetch_report_csv_controlled
    wkAttempt,  \* worker thread: attempt of the retry loop
    wkSlots,    \* worker thread: slots acquired minus slots released
    wkLast,     \* worker thread: how its last attempt ended
    wkSlept,    \* worker thread: the back-off it is in before its next attempt
    fxOp,       \* frame functions: which function was applied last
    fxDf,       \* frame functions: the table drawn as input
    fxCode,     \* frame functions: agency_code argument
    fxFilters,  \* frame functions: the query parameters
    fxPrev,     \* frame functions: the result before the last application
    fxOut,      \* frame functions: the result of the last application
    cfFile,     \* configuration file: what is in it now
    cfWritten,  \* configuration file: the configurations given to a save
    cfLoad,     \* configuration file: what the last load of a reader gave
    cfLoads,    \* configuration file: loads of readers so far
    wrPc,       \* admin request: position in add_or_update_config
    wrData,     \* admin request: the configuration it saves
    wrDirty,    \* admin request: another writer wrote since its open
    scVariant,  \* scheduler: which polling loop runs ("-" before it starts)
    scPc,       \* scheduler: position in the loop body
    scHour,     \* scheduler: datetime.now().hour of the current cycle
    scSource,   \* scheduler: last-refresh timestamp the source exposes
    scLast,     \* scheduler: last_refresh_times[report_name]
    scSeen,     \* scheduler: current_time read in this cycle
    scAgencies, \* scheduler: what fetch_agency_codes returned
    poVariant,  \* export poll: which fetcher runs the loop ("-" before)
    poPc,       \* export poll: position ("idle", "polling", "done")
    poElapsed,  \* export poll: time.time() - start_time, in poll intervals
    poPolls,    \* export poll: POSTs of the export URL made in the loop
    poTimedOut, \* export poll: the timeout test of the loop was true
    poOut,      \* export poll: how the loop ended
    ovPc,       \* overlapping runs: position of each run in the report
    ovTypes,    \* overlapping runs: info types each run has still to fetch
    ovMeta,     \* overlapping runs: refreshed_meta["info_types"] of each run
    ovFailed,   \* overlapping runs: errors_for_report is not empty
    pmPc,       \* overlapping smart refreshes: position of each refresh
    pmTodo,     \* overlapping smart refreshes: agencies not yet processed
    pmOk,       \* overlapping smart refreshes: agencies whose backup was queued
    pmBatch,    \* overlapping smart refreshes: SET operations not yet flushed
    pmQueue,    \* overlapping smart refreshes: commands of the promotion pipeline
    alLogs,     \* access log: endpoint_name of the entries of _logs, oldest first
    alLock,     \* access log: thread that holds _lock, 0 when it is free
    alPc,       \* access log: position of each thread
    alNames,    \* access log: endpoint_names get_all_stats has still to visit
    alCall,     \* access log: the get_endpoint_stats call a thread is in
    alStats,    \* access log: stats of get_all_stats, endpoint -> total_requests
    alCache,    \* access log: _stats_cache
    alFresh     \* access log: _cache_timestamp is set and younger than 60 s

policyVars == <<pcfg, pres, pvariant>>
pageVars == <<pgVariant, pgN, pgP, pgK, pgAcc, pgPhase, pgPage, pgLast>>

storeVars == <<cache, meta, srcVer, hist>>
refreshVars == <<rfPc, rfRun, rfInput, rfResult, rfEligible, rfQueue, rfCur,
                 rfTypes, rfMeta, rfErrs, rfExc, rfConn, connOpened,
                 connClosed, fetchConns, rfLog>>
readVars == <<rdPc, rdReq, rdDf, rdLive, rdReads, rdAfter, rdResp>>
smartVars == <<active, backup, smPc, smRun, smReport, smTodo, smBatch,
               smQueue, smHist>>
getVars == <<gtKey, gtVal, gtWritten>>
endpointVars == <<epRun, epName, epStatus>>
poolVars == <<gcSem, gcCount, plCreated, plIdle, plLock, wkPc, wkAttempt,
              wkSlots, wkLast, wkSlept>>
frameVars == <<fxOp, fxDf, fxCode, fxFilters, fxPrev, fxOut>>
configVars == <<cfFile, cfWritten, cfLoad, cfLoads, wrPc, wrData, wrDirty>>
schedVars == <<scVariant, scPc, scHour, scSource, scLast, scSeen, scAgencies>>
pollVars == <<poVariant, poPc, poElapsed, poPolls, poTimedOut, poOut>>
overlapVars == <<ovPc, ovTypes, ovMeta, ovFailed>>
promoteVars == <<pmPc, pmTodo, pmOk, pmBatch, pmQueue>>
accessVars == <<alLogs, alLock, alPc, alNames, alCall, alStats,
    alCache, alFresh>>
lateVars == <<schedVars, pollVars, overlapVars, promoteVars, accessVars>>
extraVars == <<frameVars, configVars, lateVars>>
moreVars == <<endpointVars, poolVars, extraVars>>

vars == <<pcfg, pres, pvariant,
          pgVariant, pgN, pgP, pgK, pgAcc, pgPhase, pgPage, pgLast,
          cache, meta, srcVer, hist,
          rfPc, rfRun, rfInput, rfResult, rfEligible, rfQueue, rfCur,
          rfTypes, rfMeta, rfErrs, rfExc, rfConn, connOpened,
          connClosed, fetchConns, rfLog,
          rdPc, rdReq, rdDf, rdLive, rdReads, rdAfter, rdResp,
          active, backup, smPc, smRun, smReport, smTodo, smBatch,
          smQueue, smHist, gtKey, gtVal, gtWritten,
          epRun, epName, epStatus,
          gcSem, gcCount, plCreated, plIdle, plLock, wkPc, wkAttempt,
          wkSlots, wkLast, wkSlept, fxOp, fxDf, fxCode, fxFilters, fxPrev, fxOut,
          cfFile, cfWritten, cfLoad, cfLoads, wrPc, wrData, wrDirty,
          scVariant, scPc, scHour, scSource, scLast, scSeen, scAgencies,
          poVariant, poPc, poElapsed, poPolls, poTimedOut, poOut,
          ovPc, ovTypes, ovMeta, ovFailed,
          pmPc, pmTodo, pmOk, pmBatch, pmQueue,
          alLogs, alLock, alPc, alNames, alCall, alStats, alCache, alFresh>>

----------------------------------------------------------------------------
(* Python values as they come out of yaml.safe_load.  A string is a        *)
(* sequence of one-character strings so that strip() and lower() compute.  *)

Val(t, s, i) == [t |-> t, s |-> s, i |-> i]
Missing  == Val("missing", <<>>, 0)      \* key absent: dict.get gives None
PyNone   == Val("none", <<>>, 0)
PyStr(s) == Val("str", s, 0)
PyInt(i) == Val("int", <<>>, i)
PyBool(b) == Val("bool", <<>>, IF b THEN 1 ELSE 0)
PyFloat(tenths) == Val("float", <<>>, tenths)   \* value = tenths / 10
PyInf    == Val("inf", <<>>, 0)                 \* float('inf'), YAML .inf
PyNaN    == Val("nan", <<>>, 0)                 \* float('nan'), YAML .nan
PyList(n) == Val("list", <<>>, n)               \* a list of n items

UpperChars == <<"A","B","C","D","E","F","G","H","I","J","K","L","M",
                "N","O","P","Q","R","S","T","U","V","W","X","Y","Z">>
LowerChars == <<"a","b","c","d","e","f","g","h","i","j","k","l","m",
                "n","o","p","q","r","s","t","u","v","w","x","y","z">>
DigitChars == <<"0","1","2","3","4","5","6","7","8","9">>
Whitespace == {" ", "\t", "\n"}

IsUpperChar(c) == \E k \in 1..26 : UpperChars[k] = c
IsLowerChar(c) == \E k \in 1..26 : LowerChars[k] = c
IsDigitChar(c) == \E k \in 1..10 : DigitChars[k] = c
DigitValue(c) == (CHOOSE k \in 1..10 : DigitChars[k] = c) - 1

\* str.lower() on one character
LowerChar(c) ==
    IF IsUpperChar(c) THEN LowerChars[CHOOSE k \in 1..26 : UpperChars[k] = c]
    ELSE c

\* str.lower()
StrLower(s) == [k \in 1..Len(s) |-> LowerChar(s[k])]

\* str.strip(): drop leading and trailing whitespace
StrStrip(s) ==
    LET keep == {k \in 1..Len(s) : s[k] \notin Whitespace}
    IN  IF keep = {} THEN <<>>
        ELSE LET lo == CHOOSE k \in keep : \A j \in keep : k <= j
                 hi == CHOOSE k \in keep : \A j \in keep : k >= j
             IN  SubSeq(s, lo, hi)

\* bool(value): Python truthiness
Truthy(v) ==
    CASE v.t = "missing" -> FALSE
      [] v.t = "none"    -> FALSE
      [] v.t = "str"     -> v.s # <<>>
      [] v.t = "int"     -> v.i # 0
      [] v.t = "bool"    -> v.i # 0
      [] v.t = "float"   -> v.i # 0
      [] v.t = "inf"     -> TRUE
      [] v.t = "nan"     -> TRUE
      [] v.t = "list"    -> v.i > 0

RECURSIVE DigitsValue(_)
DigitsValue(s) ==
    IF s = <<>> THEN 0
    ELSE 10 * DigitsValue(SubSeq(s, 1, Len(s) - 1)) + DigitValue(s[Len(s)])

\* int(value): [ok, i] or [ok = FALSE, err]
IntOk(i)    == [ok |-> TRUE, i |-> i, err |-> "-"]
IntErr(e)   == [ok |-> FALSE, i |-> 0, err |-> e]

IntOfStr(s) ==
    LET body == StrStrip(s)
        signed == body # <<>> /\ body[1] \in {"+", "-"}
        digits == IF signed THEN Tail(body) ELSE body
    IN  IF digits # <<>> /\ \A k \in 1..Len(digits) : IsDigitChar(digits[k])
        THEN IntOk(IF signed /\ body[1] = "-" THEN 0 - DigitsValue(digits)
                   ELSE DigitsValue(digits))
        ELSE IntErr("ValueError")

PyIntOf(v) ==
    CASE v.t = "missing" -> IntErr("TypeError")
      [] v.t = "none"    -> IntErr("TypeError")
      [] v.t = "str"     -> IntOfStr(v.s)
      [] v.t = "int"     -> IntOk(v.i)
      [] v.t = "bool"    -> IntOk(v.i)
      [] v.t = "float"   -> IntOk(IF v.i >= 0 THEN v.i \div 10
                                  ELSE 0 - ((0 - v.i) \div 10))
      [] v.t = "inf"     -> IntErr("OverflowError")
      [] v.t = "nan"     -> IntErr("ValueError")
      [] v.t = "list"    -> IntErr("TypeError")

----------------------------------------------------------------------------
(* Pagination.                                                             *)

MaxRows == 5          \* largest table of the pagination runs
MaxPageSize == 3      \* largest page_size argument
MinPageSize == 0 - 1  \* smallest page_size argument
MaxPage == 4          \* largest page argument of a single request
MinPage == 0 - 1      \* smallest page argument of a single request

Max2(a, b) == IF a >= b THEN a ELSE b
Min2(a, b) == IF a <= b THEN a ELSE b

\* Python a // b (floor division), b # 0
PyFloorDiv(a, b) ==
    IF b > 0 THEN (IF a >= 0 THEN a \div b ELSE 0 - ((0 - a + b - 1) \div b))
    ELSE (IF a <= 0 THEN (0 - a) \div (0 - b)
          ELSE 0 - ((a + (0 - b) - 1) \div (0 - b)))

\* math.ceil(a / b) for a >= 0, b > 0
CeilDiv(a, b) == (a + b - 1) \div b

\* df.iloc[start:end] with Python slice semantics
ILocSlice(rows, start, end) ==
    LET n == Len(rows)
        clip(x) == IF x < 0 THEN Max2(n + x, 0) ELSE Min2(x, n)
        lo == clip(start)
        hi == clip(end)
    IN  IF lo < hi THEN SubSeq(rows, lo + 1, hi) ELSE <<>>

PageResult(rows, page, size, totalRows, totalPages) ==
    [err |-> "-", rows |-> rows, page |-> page, page_size |-> size,
     total_rows |-> totalRows, total_pages |-> totalPages]
PageError(e) ==
    [err |-> e, rows |-> <<>>, page |-> 0, page_size |-> 0,
     total_rows |-> 0, total_pages |-> 0]

\* services/report_service.py
_paginate(df, page, page_size) ==
    LET total_rows == Len(df)
        size == IF page_size <= 0 THEN Max2(total_rows, 1) ELSE page_size
        pg == IF page <= 0 THEN 1 ELSE page
        start == (pg - 1) * size
        end == start + size
        total_pages == IF size # 0 THEN PyFloorDiv(total_rows + size - 1, size)
                       ELSE 1
    IN  PageResult(ILocSlice(df, start, end), pg, size, total_rows, total_pages)

\* services/pagination.py
paginate_dataframe(df, page, per_page) ==
    LET total_records == Len(df)
        total_pages == IF per_page > 0 THEN CeilDiv(total_records, per_page)
                       ELSE 1
        pg == Max2(1, Min2(page, IF total_pages > 0 THEN total_pages ELSE 1))
        start_idx == (pg - 1) * per_page
        end_idx == start_idx + per_page
    IN  PageResult(ILocSlice(df, start_idx, end_idx), pg, per_page,
                   total_records, total_pages)

\* api_v3.py
paginate_data(df, page, page_size) ==
    LET total_rows == Len(df)
        start == (page - 1) * page_size
        end == start + page_size
    IN  IF page_size = 0 THEN PageError("ZeroDivisionError")
        ELSE PageResult(ILocSlice(df, start, end), page, page_size, total_rows,
                        PyFloorDiv(total_rows + page_size - 1, page_size))

PageVariants == {"report_service", "pagination", "api_v3"}

Paginate(variant, df, page, size) ==
    CASE variant = "report_service" -> _paginate(df, page, size)
      [] variant = "pagination"     -> paginate_dataframe(df, page, size)
      [] variant = "api_v3"         -> paginate_data(df, page, size)

\* The table of n rows: row k is the integer k
PageTable(n) == [k \in 1..n |-> k]


----------------------------------------------------------------------------
(* Cache policy resolver.                                                  *)

CACHE_POLICY_NONE  == "none"
CACHE_POLICY_DAILY == "daily"
NoneChars  == <<"n","o","n","e">>
DailyChars == <<"d","a","i","l","y">>

\* A cfg argument: None, {} or a mapping with the two fields the resolver
\* reads.
CfgNone  == [kind |-> "none",  cache_policy |-> Missing, is_csv_cached |-> Missing]
CfgEmpty == [kind |-> "empty", cache_policy |-> Missing, is_csv_cached |-> Missing]
CfgDict(p, l) == [kind |-> "dict", cache_policy |-> p, is_csv_cached |-> l]

\* int(legacy_flag) guarded by except (TypeError, ValueError); any other
\* exception escapes.
LegacyPolicy(flag) ==
    LET parsed == PyIntOf(flag)
        n == IF parsed.ok THEN parsed.i ELSE 0
    IN  IF ~parsed.ok /\ parsed.err \notin {"TypeError", "ValueError"}
        THEN parsed.err
        ELSE IF n > 0 THEN CACHE_POLICY_DAILY ELSE CACHE_POLICY_NONE

\* services/config_store.py
resolve_cache_policy(cfg) ==
    IF cfg.kind \in {"none", "empty"} THEN CACHE_POLICY_NONE
    ELSE LET raw == IF Truthy(cfg.cache_policy) THEN cfg.cache_policy
                    ELSE PyStr(<<>>)
         IN  IF raw.t # "str" THEN "AttributeError"
             ELSE LET policy == StrLower(StrStrip(raw.s))
                  IN  IF policy = NoneChars THEN CACHE_POLICY_NONE
                      ELSE IF policy = DailyChars THEN CACHE_POLICY_DAILY
                      ELSE LegacyPolicy(cfg.is_csv_cached)

\* mstr_herald/utils.py
herald_resolve_cache_policy(cfg) ==
    IF cfg.kind \in {"none", "empty"} THEN CACHE_POLICY_NONE
    ELSE LET raw == IF Truthy(cfg.cache_policy) THEN cfg.cache_policy
                    ELSE PyStr(<<>>)
         IN  IF raw.t # "str" THEN "AttributeError"
             ELSE LET policy == StrLower(StrStrip(raw.s))
                      legacy == LegacyPolicy(cfg.is_csv_cached)
                  IN  IF policy = NoneChars THEN CACHE_POLICY_NONE
                      ELSE IF policy = DailyChars THEN CACHE_POLICY_DAILY
                      ELSE legacy

\* Inputs of the resolver
PolicyFieldInputs ==
    { Missing, PyNone,
      PyStr(NoneChars), PyStr(DailyChars),
      PyStr(<<" ","D","a","i","l","y"," ">>), PyStr(<<"N","O","N","E","\n">>),
      PyStr(<<"w","e","e","k","l","y">>), PyStr(<<>>), PyStr(<<" ">>),
      PyInt(1), PyInt(0), PyBool(TRUE), PyBool(FALSE), PyList(2), PyList(0) }

LegacyFlagInputs ==
    { Missing, PyNone, PyInt(0), PyInt(1), PyInt(2), PyInt(0 - 1),
      PyStr(<<"1">>), PyStr(<<"0">>), PyStr(<<" ","2"," ">>), PyStr(<<"-","3">>),
      PyStr(<<"a","b","c">>), PyStr(<<"1",".","5">>), PyStr(<<>>),
      PyFloat(15), PyFloat(5), PyFloat(0 - 15), PyBool(TRUE), PyBool(FALSE),
      PyInf, PyNaN, PyList(1) }

CfgInputs ==
    {CfgNone, CfgEmpty}
    \cup {CfgDict(p, l) : p \in PolicyFieldInputs, l \in LegacyFlagInputs}

----------------------------------------------------------------------------
(* Tables.  A table has column names (strings as character sequences) and  *)
(* rows of cells; a cell carries its pandas kind and a number.             *)

Cell(k, v) == [k |-> k, v |-> v]
IntCell(v)   == Cell("int", v)        \* numpy int64
FloatCell(v) == Cell("float", v)      \* numpy float64 with value v.0
NaNCell      == Cell("nan", 0)
StrCell(v)   == Cell("str", v)        \* the decimal string of v, "100"
FloatStrCell(v) == Cell("floatstr", v) \* the string "100.0"
NaNStrCell   == Cell("nanstr", 0)     \* the string "nan"
TimeCell(v)  == Cell("time", v)       \* a refresh timestamp string

Table(cols, rows) == [present |-> TRUE, cols |-> cols, rows |-> rows]
Absent == [present |-> FALSE, cols |-> <<>>, rows |-> <<>>]  \* GET gave nil

\* DataFrame.empty
IsEmpty(df) == Len(df.rows) = 0 \/ Len(df.cols) = 0

IsAlnumChar(c) == IsUpperChar(c) \/ IsLowerChar(c) \/ IsDigitChar(c)
IsAlphaChar(c) == IsUpperChar(c) \/ IsLowerChar(c)

UpperChar(c) ==
    IF IsLowerChar(c) THEN UpperChars[CHOOSE k \in 1..26 : LowerChars[k] = c]
    ELSE c

\* re.sub(r"[^0-9a-zA-Z]+", " ", s).strip().split(): the alphanumeric runs
RECURSIVE AlnumParts(_, _, _)
AlnumParts(s, k, cur) ==
    IF k > Len(s) THEN (IF cur = <<>> THEN <<>> ELSE <<cur>>)
    ELSE IF IsAlnumChar(s[k]) THEN AlnumParts(s, k + 1, Append(cur, s[k]))
    ELSE (IF cur = <<>> THEN <<>> ELSE <<cur>>) \o AlnumParts(s, k + 1, <<>>)

\* str.title(): upper-case a letter that follows a non-letter, lower-case
\* a letter that follows a letter
StrTitle(s) ==
    [k \in 1..Len(s) |->
        IF k > 1 /\ IsAlphaChar(s[k - 1]) THEN LowerChar(s[k])
        ELSE UpperChar(s[k])]

RECURSIVE JoinTitled(_)
JoinTitled(parts) ==
    IF parts = <<>> THEN <<>>
    ELSE StrTitle(Head(parts)) \o JoinTitled(Tail(parts))

\* unicodedata.normalize("NFKD", s).encode("ascii", "ignore"): characters
\* outside ASCII are written as multi-character tokens and fall away
IsAscii(c) == IsAlnumChar(c) \/ c \in {" ", "_", "-", ".", "/", "(", ")", "%"}
AsciiOnly(s) == SelectSeq(s, IsAscii)

\* mstr_herald/utils.py
_to_camel_no_tr(s) ==
    LET parts == AlnumParts(AsciiOnly(s), 1, <<>>)
    IN  IF parts = <<>> THEN <<>>
        ELSE StrLower(Head(parts)) \o JoinTitled(Tail(parts))

\* True when sub occurs in s
Contains(s, sub) ==
    \E k \in 0..(Len(s) - Len(sub)) : SubSeq(s, k + 1, k + Len(sub)) = sub

AcenteChars == <<"a","c","e","n","t","e">>
AgencyChars == <<"a","g","e","n","c","y">>

ColumnCells(df, c) == [k \in 1..Len(df.rows) |-> df.rows[k][c]]

\* dtype.kind in {"i", "f"}
IsNumericColumn(df, c) ==
    /\ Len(df.rows) > 0
    /\ \A k \in 1..Len(df.rows) : df.rows[k][c].k \in {"int", "float", "nan"}

\* str(int(x)) if not pd.isna(x) else x
AgencyCellToStr(cell) ==
    IF cell.k \in {"int", "float"} THEN StrCell(cell.v) ELSE cell

\* cache_refresher/full_report_refresher.py
normalize_agency_code_columns(df) ==
    LET hit == [c \in 1..Len(df.cols) |->
                   /\ \/ Contains(StrLower(df.cols[c]), AcenteChars)
                      \/ Contains(StrLower(df.cols[c]), AgencyChars)
                   /\ IsNumericColumn(df, c)]
    IN  Table(df.cols,
              [k \in 1..Len(df.rows) |->
                  [c \in 1..Len(df.cols) |->
                      IF hit[c] THEN AgencyCellToStr(df.rows[k][c])
                      ELSE df.rows[k][c]]])

----------------------------------------------------------------------------
(* Configuration file (dossiers.yaml) and the sources behind it.           *)

DATA_POLICY_MICROSTRATEGY == "microstrategy"
DATA_POLICY_POSTGRESQL == "postgresql"

NoAgency == 0             \* no agency code / no agency_name filter
NoParam == "-"            \* a configuration field that is not set

\* Report names in file order; "U" is a name that is not configured
ConfiguredReports == <<"A", "B", "N", "P">>
ReportNames == {"A", "B", "N", "P", "U"}
InfoTypes == {"summary", "detail"}

\* viz_keys is an ordered mapping: a sequence of <<info_type, viz_key>>
ConfigFile ==
    [r \in {"A", "B", "N", "P"} |->
        CASE r = "A" ->
               [policy |-> CfgDict(PyStr(<<"D","a","i","l","y">>), PyInt(0)),
                data_policy |-> DATA_POLICY_MICROSTRATEGY,
                viz_keys |-> << <<"summary", "K52">>, <<"detail", "W10">> >>,
                agency_filter |-> "agencyKey", postgres_table |-> NoParam]
          [] r = "B" ->
               [policy |-> CfgDict(Missing, PyInt(1)),
                data_policy |-> DATA_POLICY_MICROSTRATEGY,
                viz_keys |-> << <<"summary", "K7">>, <<"detail", NoParam>> >>,
                agency_filter |-> NoParam, postgres_table |-> NoParam]
          [] r = "N" ->
               [policy |-> CfgDict(PyStr(NoneChars), PyInt(1)),
                data_policy |-> DATA_POLICY_MICROSTRATEGY,
                viz_keys |-> << <<"summary", "K9">> >>,
                agency_filter |-> "agencyKey", postgres_table |-> NoParam]
          [] r = "P" ->
               [policy |-> CfgDict(PyStr(DailyChars), Missing),
                data_policy |-> DATA_POLICY_POSTGRESQL,
                viz_keys |-> <<>>,
                agency_filter |-> NoParam, postgres_table |-> "public.sales"]]

InConfig(name) == name \in DOMAIN ConfigFile

\* A lookup that falls back to a default visualization
VizKey_Default(cfg, info_type) == "K0"

\* cfg["viz_keys"][info_type], NoParam when the key is absent or null
VizKey(cfg, info_type) ==
    IF \E k \in 1..Len(cfg.viz_keys) : cfg.viz_keys[k][1] = info_type
    THEN cfg.viz_keys[CHOOSE k \in 1..Len(cfg.viz_keys) :
                          cfg.viz_keys[k][1] = info_type][2]
    ELSE NoParam

\* The source data changes over time; a version names one content.
MaxVer == 2           \* number of source updates in a run of the model

\* Rows of a visualization at each version: none at first, then more than
\* one page of 10, then a few
RowCount(ver) == IF ver = 0 THEN 0 ELSE IF ver = 1 THEN 11 ELSE ver

ReportCode(r) == CASE r = "A" -> 1 [] r = "B" -> 2 [] r = "N" -> 3
                   [] r = "P" -> 4 [] OTHER -> 9
TypeCode(t) == IF t = "summary" THEN 1 ELSE 2

AgencyCodes == {100, 200}
AgencyOfRow(k) == IF k % 2 = 1 THEN 100 ELSE 200

AcenteKoduRaw == <<"A","c","e","n","t","e"," ","K","o","d","u">>
PrimRaw == <<"P","R","I","M">>
UrunRaw == <<"U","r","u","n"," ","A","d","i">>
DataRefreshTimeLower == <<"d","a","t","a","r","e","f","r","e","s","h","t","i","m","e">>
DataRefreshTimeCamel == <<"d","a","t","a","R","e","f","r","e","s","h","T","i","m","e">>

SourceCols(r) ==
    IF r = "B" THEN <<UrunRaw, PrimRaw>> ELSE <<AcenteKoduRaw, PrimRaw>>

\* Row k of the visualization at one version: an agency (or product) code
\* and a measure that names report, info_type, version and row
SourceRow(r, t, ver, k) ==
    << IntCell(AgencyOfRow(k)),
       IntCell(ReportCode(r) * 10000 + TypeCode(t) * 1000 + ver * 100 + k) >>

\* The CSV export of a visualization, with the dossier filter on the
\* agency applied by the server when one is given
SourceCsv(r, t, ver, agency) ==
    LET all == [k \in 1..RowCount(ver) |-> SourceRow(r, t, ver, k)]
        keep(row) == agency = NoAgency \/ row[1].v = agency
    IN  Table(SourceCols(r), SelectSeq(all, keep))

AddColumn(df, name, cell) ==
    Table(Append(df.cols, name),
          [k \in 1..Len(df.rows) |-> Append(df.rows[k], cell)])

\* mstr_herald/fetcher_v2.py: the dossier filter is sent only when the
\* report maps agency_name and the caller passed one
fetch_report_csv(r, filters, info_type, ver) ==
    LET cfg == ConfigFile[r]
        agency == IF cfg.agency_filter # NoParam THEN filters ELSE NoAgency
    IN  AddColumn(SourceCsv(r, info_type, ver, agency),
                  DataRefreshTimeLower, TimeCell(ver))

\* A refresh that fetches through the dossier filter of one agency
RefreshFilters_OneAgency == AgencyOfRow(1)

\* filters={} in the refresher's call of fetch_report_csv
RefreshFilters == NoAgency

\* The frame the refresher pickles for one info_type
RefreshFrame(r, info_type, ver) ==
    LET df == fetch_report_csv(r, RefreshFilters, info_type, ver)
        renamed == Table([c \in 1..Len(df.cols) |-> _to_camel_no_tr(df.cols[c])],
                         df.rows)
    IN  normalize_agency_code_columns(renamed)

\* The frames the refresher can pickle, computed once
RefreshFrames ==
    [r \in {"A", "B", "N", "P"}, t \in InfoTypes, ver \in 0..MaxVer |->
        RefreshFrame(r, t, ver)]

\* A key that puts the info_type before the scope
build_cache_key_TypeBeforeScope(report_name, info_type, scope) ==
    <<report_name, info_type, scope>>

NoKey == <<"-", "-", "-">>

\* services/cache_service.py
build_cache_key(report_name, info_type, scope) == <<report_name, scope, info_type>>

\* services/cache_service.py get_dataframe, api_v3.py get_cached_data: a
\* GET of a key that Redis does not hold gives None
get_dataframe(cache_key) ==
    IF cache_key \in DOMAIN cache THEN cache[cache_key] ELSE Absent

\* f"{report_name}:all:{info_type}" in the refresher
RefreshCacheKey(report_name, info_type) == <<report_name, "all", info_type>>

CacheKeys == {<<r, "all", t>> : r \in {"A", "B", "N", "P"}, t \in InfoTypes}

\* cache_refresher/cache_refresher.py, refresh_all_reports_smart:
\* cfg.get("is_csv_cached") == 1
IsOne(v) ==
    \/ v.t \in {"int", "bool"} /\ v.i = 1
    \/ v.t = "float" /\ v.i = 10

SmartReports ==
    {r \in DOMAIN ConfigFile : IsOne(ConfigFile[r].policy.is_csv_cached)}

\* f"{report_name}:{agency_code}"; the backup key is "backup:" + that
SmartKey(report_name, agency_code) == <<report_name, agency_code>>

SmartKeys == {SmartKey(r, a) : r \in SmartReports, a \in AgencyCodes}

\* fetch_report_csv_controlled: the summary visualization through the
\* filters the report maps, dataRefreshTime added, columns renamed
SmartFrame(r, agency, ver) ==
    LET For(df) ==
            Table([c \in 1..Len(df.cols) |-> _to_camel_no_tr(df.cols[c])], df.rows)
    IN  For(AddColumn(SourceCsv(r, "summary", ver,
                                IF ConfigFile[r].agency_filter # NoParam
                                THEN agency ELSE NoAgency),
                      DataRefreshTimeCamel, TimeCell(ver)))

\* The frames a worker can pickle, computed once
SmartFrames ==
    [k \in SmartKeys, ver \in 0..MaxVer |-> SmartFrame(k[1], k[2], ver)]

----------------------------------------------------------------------------
(* Frame preparation on the read path (services/dataframe_tools.py,        *)
(* api_v3.py).                                                             *)

\* The Turkish letters of the replacement table, written as tokens
TurkishLower == <<"c-cedilla", "g-breve", "dotless-i", "o-uml", "s-cedilla", "u-uml">>
TurkishUpper == <<"C-cedilla", "G-breve", "I-dot", "O-uml", "S-cedilla", "U-uml">>
TurkishLowerAscii == <<"c", "g", "i", "o", "s", "u">>
TurkishUpperAscii == <<"C", "G", "I", "O", "S", "U">>

\* str.islower() / str.isupper() on one character
PyIsLower(c) == IsLowerChar(c) \/ \E k \in 1..6 : TurkishLower[k] = c
PyIsUpper(c) == IsUpperChar(c) \/ \E k \in 1..6 : TurkishUpper[k] = c

\* services/dataframe_tools.py, mstr_herald/utils.py: the same table
replace_turkish_characters(value) ==
    [k \in 1..Len(value) |->
        IF \E j \in 1..6 : TurkishLower[j] = value[k]
        THEN TurkishLowerAscii[CHOOSE j \in 1..6 : TurkishLower[j] = value[k]]
        ELSE IF \E j \in 1..6 : TurkishUpper[j] = value[k]
        THEN TurkishUpperAscii[CHOOSE j \in 1..6 : TurkishUpper[j] = value[k]]
        ELSE value[k]]

\* re.sub(r"[^a-z]", "", column.lower()); lower() turns the dotted capital
\* I into "i" and a combining dot, every other letter outside a-z falls away
Simplify(s) ==
    SelectSeq([k \in 1..Len(s) |-> IF s[k] = "I-dot" THEN "i" ELSE LowerChar(s[k])],
              IsLowerChar)

_AGENCY_COLUMN_HINTS ==
    { AgencyChars, AgencyChars \o <<"c","o","d","e">>, AgencyChars \o <<"i","d">>,
      AcenteChars \o <<"k","o","d","u">>, AcenteChars, AcenteChars \o <<"i","d">> }

StartsWith(s, pre) == Len(s) >= Len(pre) /\ SubSeq(s, 1, Len(pre)) = pre

\* services/dataframe_tools.py
is_lower_camel_case(value) ==
    /\ value # <<>>
    /\ PyIsLower(value[1])
    /\ \E k \in 2..Len(value) : PyIsUpper(value[k])

\* services/dataframe_tools.py
to_ascii_camel(value) ==
    LET parts == AlnumParts(AsciiOnly(replace_turkish_characters(value)), 1, <<>>)
    IN  IF parts = <<>> THEN <<>>
        ELSE LET candidate == StrLower(Head(parts)) \o JoinTitled(Tail(parts))
             IN  IF candidate # <<>> THEN candidate ELSE value

\* services/dataframe_tools.py
normalise_columns(df) ==
    Table([c \in 1..Len(df.cols) |->
              IF is_lower_camel_case(df.cols[c]) THEN df.cols[c]
              ELSE to_ascii_camel(df.cols[c])],
          df.rows)

\* Series.astype(str) on one cell
AsTypeStr(cell) ==
    CASE cell.k = "int"   -> StrCell(cell.v)
      [] cell.k = "float" -> FloatStrCell(cell.v)
      [] cell.k = "nan"   -> NaNStrCell
      [] OTHER            -> cell

\* services/dataframe_tools.py
normalise_agency_code_columns(df) ==
    LET hit == [c \in 1..Len(df.cols) |->
                   LET simplified == Simplify(df.cols[c])
                   IN  \/ simplified \in _AGENCY_COLUMN_HINTS
                       \/ StartsWith(simplified, AgencyChars)
                       \/ StartsWith(simplified, AcenteChars)]
        numeric == [c \in 1..Len(df.cols) |-> IsNumericColumn(df, c)]
    IN  Table(df.cols,
              [k \in 1..Len(df.rows) |->
                  [c \in 1..Len(df.cols) |->
                      IF ~hit[c] THEN df.rows[k][c]
                      ELSE IF numeric[c] THEN AgencyCellToStr(df.rows[k][c])
                      ELSE AsTypeStr(df.rows[k][c])]])

\* services/dataframe_tools.py: the first agency column decides
filter_by_agency(df, agency_code) ==
    LET hit(c) == LET simplified == Simplify(df.cols[c])
                  IN  \/ simplified \in _AGENCY_COLUMN_HINTS
                      \/ \E hint \in _AGENCY_COLUMN_HINTS : Contains(simplified, hint)
        cands == {c \in 1..Len(df.cols) : hit(c)}
        col == CHOOSE c \in cands : \A d \in cands : c <= d
        target == StrCell(agency_code)
    IN  IF agency_code = NoAgency \/ cands = {} THEN df
        ELSE Table(df.cols,
                   SelectSeq(df.rows, LAMBDA row : AsTypeStr(row[col]) = target))

DropColumn(df, col) ==
    LET without(q) == [c \in 1..(Len(q) - 1) |-> IF c < col THEN q[c] ELSE q[c + 1]]
    IN  Table(without(df.cols), [k \in 1..Len(df.rows) |-> without(df.rows[k])])

NoTime == Cell("none", 0)

\* services/dataframe_tools.py: [frame, cube_time]
extract_cube_time(df) ==
    LET cands == {c \in 1..Len(df.cols) : Simplify(df.cols[c]) = DataRefreshTimeLower}
    IN  IF cands = {} THEN [df |-> df, cube_time |-> NoTime]
        ELSE LET col == CHOOSE c \in cands : \A d \in cands : c <= d
             IN  [df |-> DropColumn(df, col),
                  cube_time |-> IF IsEmpty(df) THEN NoTime ELSE df.rows[1][col]]

\* A query parameter: a key and a value; the value is a decimal string
\* (StrCell), a date written MM/DD/YYYY (DateValue), a word, or ""
Param(key, value) == [key |-> key, value |-> value]
DateValue(d) == Cell("date", d)
WordValue == Cell("word", 0)
EmptyValue == Cell("empty", 0)
NoFilters == <<>>

BegDateChars == <<"b","e","g","D","a","t","e">>
EndDateChars == <<"e","n","d","D","a","t","e">>
BegSuffix == <<"_","b","e","g","_","d","a","t","e">>
EndSuffix == <<"_","e","n","d","_","d","a","t","e">>
AgencyNameKey == <<"a","g","e","n","c","y","_","n","a","m","e">>

\* mstr_herald/filter_utils.py: the entries of the list that the tables
\* of this model can carry
DATE_COLUMN_LIST == <<BegDateChars, EndDateChars>>

NoDate == 0 - 1

\* mstr_herald/filter_utils.py: strptime("%m/%d/%Y"); None for no value
_parse_date(value) == IF value.k = "date" THEN value.v ELSE NoDate

\* {k.lower(): v for k, v in filters.items()}: a key keeps the place of
\* its first spelling and the value of its last
LowerKeys(filters) ==
    LET low == [k \in 1..Len(filters) |-> StrLower(filters[k].key)]
        last(k) == CHOOSE j \in k..Len(filters) :
                       low[j] = low[k] /\ \A i \in (j + 1)..Len(filters) : low[i] # low[k]
        all == [k \in 1..Len(filters) |->
                   [key |-> low[k], value |-> filters[last(k)].value, first |->
                       \A j \in 1..(k - 1) : low[j] # low[k]]]
    IN  SelectSeq(all, LAMBDA f : f.first)

\* dict.get(key): the value, or None
DictGet(filters, key) ==
    IF \E k \in 1..Len(filters) : filters[k].key = key
    THEN filters[CHOOSE k \in 1..Len(filters) : filters[k].key = key].value
    ELSE EmptyValue

\* mstr_herald/filter_utils.py
_filter_exact(df, col, value) ==
    IF IsNumericColumn(df, col)
    THEN IF value.k # "str" THEN df          \* float(value) raises
         ELSE Table(df.cols,
                    SelectSeq(df.rows, LAMBDA row :
                        row[col].k \in {"int", "float"} /\ row[col].v = value.v))
    ELSE Table(df.cols, SelectSeq(df.rows, LAMBDA row : row[col] = value))

\* mstr_herald/filter_utils.py: a date column holds timestamps and NaT
_filter_date_range(df, col, start_date, end_date) ==
    LET start == _parse_date(start_date)
        end == _parse_date(end_date)
        keep(row) ==
            /\ start # NoDate => (row[col].k = "time" /\ row[col].v >= start)
            /\ end # NoDate => (row[col].k = "time" /\ row[col].v <= end)
    IN  Table(df.cols, SelectSeq(df.rows, keep))

RECURSIVE DateFilters(_, _, _)
DateFilters(df, filters, n) ==
    IF n > Len(DATE_COLUMN_LIST) THEN df
    ELSE LET col == DATE_COLUMN_LIST[n]
             beg_val == DictGet(filters, StrLower(col) \o BegSuffix)
             end_val == DictGet(filters, StrLower(col) \o EndSuffix)
             at == {c \in 1..Len(df.cols) : df.cols[c] = col}
         IN  DateFilters(
                 IF (beg_val # EmptyValue \/ end_val # EmptyValue) /\ at # {}
                 THEN _filter_date_range(df, CHOOSE c \in at : \A d \in at : c <= d,
                                         beg_val, end_val)
                 ELSE df,
                 filters, n + 1)

RECURSIVE ExactOnColumns(_, _, _, _)
ExactOnColumns(df, key, value, c) ==
    IF c > Len(df.cols) THEN df
    ELSE ExactOnColumns(IF StrLower(df.cols[c]) = key THEN _filter_exact(df, c, value)
                        ELSE df,
                        key, value, c + 1)

RECURSIVE ExactFilters(_, _, _)
ExactFilters(df, filters, n) ==
    IF n > Len(filters) THEN df
    ELSE LET excluded_keys ==
                 {StrLower(DATE_COLUMN_LIST[k]) \o BegSuffix : k \in 1..Len(DATE_COLUMN_LIST)}
                 \cup
                 {StrLower(DATE_COLUMN_LIST[k]) \o EndSuffix : k \in 1..Len(DATE_COLUMN_LIST)}
         IN  ExactFilters(IF filters[n].key \in excluded_keys THEN df
                          ELSE ExactOnColumns(df, filters[n].key, filters[n].value, 1),
                          filters, n + 1)

\* apply_filters as it would be if a key without a column emptied the table
apply_filters_Strict(df, filters) ==
    LET lowered == LowerKeys(filters)
        excluded_keys ==
            {StrLower(DATE_COLUMN_LIST[k]) \o BegSuffix : k \in 1..Len(DATE_COLUMN_LIST)}
            \cup
            {StrLower(DATE_COLUMN_LIST[k]) \o EndSuffix : k \in 1..Len(DATE_COLUMN_LIST)}
    IN  IF \E n \in 1..Len(lowered) :
               /\ lowered[n].key \notin excluded_keys
               /\ \A c \in 1..Len(df.cols) : StrLower(df.cols[c]) # lowered[n].key
        THEN Table(df.cols, <<>>)
        ELSE ExactFilters(DateFilters(df, lowered, 1), lowered, 1)

\* mstr_herald/filter_utils.py
apply_filters(df, filters) ==
    LET lowered == LowerKeys(filters)
    IN  ExactFilters(DateFilters(df, lowered, 1), lowered, 1)

\* services/report_service.py: [frame, cube_time]
_prepare_dataframe(df, filters, agency_code) ==
    LET prepared ==
            extract_cube_time(
                filter_by_agency(normalise_agency_code_columns(normalise_columns(df)),
                                 agency_code))
        non_agency_filters ==
            SelectSeq(filters, LAMBDA f :
                StrLower(f.key) # AgencyNameKey /\ f.value # EmptyValue)
    IN  IF non_agency_filters # <<>>
        THEN [df |-> apply_filters(prepared.df, non_agency_filters),
              cube_time |-> prepared.cube_time]
        ELSE prepared

\* services/dataframe_tools.py: dataframe_to_records
dataframe_to_records(rows) ==
    [k \in 1..Len(rows) |-> [c \in 1..Len(rows[k]) |-> AsTypeStr(rows[k][c])]]

\* mstr_herald/utils.py: s[0].islower() and any upper in s[1:]
herald_is_lower_camel_case(value) ==
    /\ PyIsLower(value[1])
    /\ \E k \in 2..Len(value) : PyIsUpper(value[k])

V3AgencyCols ==
    { AcenteChars \o <<"_","k","o","d","u">>, AcenteChars \o <<"K","o","d","u">>,
      AgencyChars \o <<"_","c","o","d","e">>, AgencyChars \o <<"C","o","d","e">>,
      AcenteChars, AgencyChars }

\* api_v3.py: the second definition of filter_df_by_agency is the live one
filter_df_by_agency(df, agency_code) ==
    LET cands == {c \in 1..Len(df.cols) :
                     df.cols[c] \in V3AgencyCols \/ StrLower(df.cols[c]) \in V3AgencyCols}
        col == CHOOSE c \in cands : \A d \in cands : c <= d
        target == StrCell(agency_code)
    IN  IF cands = {} THEN df
        ELSE Table(df.cols,
                   SelectSeq(df.rows, LAMBDA row : AsTypeStr(row[col]) = target))

\* api_v3.py: [frame, cube_time]; only agency_name is among the filters
process_dataframe(df) ==
    LET renamed == Table([c \in 1..Len(df.cols) |->
                             LET col == replace_turkish_characters(df.cols[c])
                             IN  IF herald_is_lower_camel_case(col) THEN col
                                 ELSE _to_camel_no_tr(col)],
                         df.rows)
        cands == {c \in 1..Len(renamed.cols) : renamed.cols[c] = DataRefreshTimeLower}
    IN  IF cands = {} THEN [df |-> renamed, cube_time |-> NoTime]
        ELSE LET col == CHOOSE c \in cands : \A d \in cands : c <= d
             IN  [df |-> DropColumn(renamed, col),
                  cube_time |-> IF IsEmpty(renamed) THEN NoTime
                                ELSE renamed.rows[1][col]]

\* mstr_herald/reports.py: the live fetch of the service read path
fetch_report_dataframe(r, filters, info_type, ver) ==
    LET cfg == ConfigFile[r]
        agency == IF cfg.agency_filter # NoParam THEN filters ELSE NoAgency
    IN  AddColumn(SourceCsv(r, info_type, ver, agency),
                  DataRefreshTimeCamel, TimeCell(ver))

AgencyCodeCol == AgencyChars \o <<"_","c","o","d","e">>
AmountCol == <<"a","m","o","u","n","t">>

\* services/postgres_service.py: SELECT * FROM the configured table
fetch_table_dataframe(r, ver) ==
    Table(<<AgencyCodeCol, AmountCol>>,
          [k \in 1..RowCount(ver) |-> SourceRow(r, "summary", ver, k)])

----------------------------------------------------------------------------
(* Quiescent values of each group of variables.                            *)

PolicyIdle ==
    /\ pcfg = CfgNone
    /\ pres = "unset"
    /\ pvariant = "unset"

PageIdle ==
    /\ pgVariant = "unset"
    /\ pgN = 0
    /\ pgP = 1
    /\ pgK = 1
    /\ pgAcc = <<>>
    /\ pgPhase = "idle"
    /\ pgPage = 0
    /\ pgLast = PageError("unset")

MetaAbsent == [present |-> FALSE, refreshed_at |-> 0, info_types |-> <<>>,
               partial |-> FALSE]

EmptyResult == [requested |-> <<>>, refreshed |-> <<>>, skipped |-> <<>>,
                errors |-> <<>>]

StoreIdle ==
    /\ cache = [k \in CacheKeys |-> Absent]
    /\ meta = [r \in {"A", "B", "N", "P"} |-> MetaAbsent]
    /\ srcVer = 0
    /\ hist = [k \in CacheKeys |-> {}]

RefreshIdle ==
    /\ rfPc = "idle"
    /\ rfRun = 0
    /\ rfInput = [given |-> FALSE, names |-> <<>>]
    /\ rfResult = EmptyResult
    /\ rfEligible = <<>>
    /\ rfQueue = <<>>
    /\ rfCur = "-"
    /\ rfTypes = <<>>
    /\ rfMeta = <<>>
    /\ rfErrs = <<>>
    /\ rfExc = FALSE
    /\ rfConn = 0
    /\ connOpened = 0
    /\ connClosed = 0
    /\ fetchConns = {}
    /\ rfLog = <<>>

NoRequest == [handler |-> "-", report |-> "-", info_type |-> "-", page |-> 0,
              page_size |-> 0, agency |-> NoAgency]

NoResponse == [status |-> 0, data |-> <<>>, total_rows |-> 0, total_pages |-> 0,
               flags |-> FALSE, cache_policy |-> "-", is_cached |-> FALSE,
               cache_hit |-> FALSE, cube_time |-> NoTime]

ReadIdle ==
    /\ rdPc = "idle"
    /\ rdReq = NoRequest
    /\ rdDf = Absent
    /\ rdLive = 0
    /\ rdReads = 0
    /\ rdAfter = FALSE
    /\ rdResp = NoResponse

SmartIdle ==
    /\ active = [k \in SmartKeys |-> Absent]
    /\ backup = [k \in SmartKeys |-> Absent]
    /\ smPc = "idle"
    /\ smRun = 0
    /\ smReport = "-"
    /\ smTodo = {}
    /\ smBatch = <<>>
    /\ smQueue = <<>>
    /\ smHist = [k \in SmartKeys |-> {}]

GetIdle ==
    /\ gtKey = NoKey
    /\ gtVal = Absent
    /\ gtWritten = FALSE

EndpointIdle ==
    /\ epRun = 0
    /\ epName = "-"
    /\ epStatus = 0

MaxWorkers == 3       \* worker threads of the concurrent refresh
MaxTotal == 2         \* GlobalConnectionManager.max_total
PoolSize == 2         \* SmartConnectionPool.pool_size, threads per report

Workers == 1..MaxWorkers

PoolIdle ==
    /\ gcSem = MaxTotal
    /\ gcCount = 0
    /\ plCreated = [r \in SmartReports |-> 0]
    /\ plIdle = [r \in SmartReports |-> 0]
    /\ plLock = [r \in SmartReports |-> 0]
    /\ wkPc = [w \in Workers |-> "idle"]
    /\ wkAttempt = [w \in Workers |-> 0]
    /\ wkSlots = [w \in Workers |-> 0]
    /\ wkLast = [w \in Workers |-> "-"]
    /\ wkSlept = [w \in Workers |-> [after |-> "-", delay |-> 0]]

MoreIdle == EndpointIdle /\ PoolIdle

NoResult == [cols |-> <<>>, rows |-> <<>>, total_rows |-> 0, total_pages |-> 0]

FrameIdle ==
    /\ fxOp = "idle"
    /\ fxDf = Absent
    /\ fxCode = 0
    /\ fxFilters = <<>>
    /\ fxPrev = NoResult
    /\ fxOut = NoResult

MaxWriters == 2       \* concurrent admin requests that save
MaxLoads == 2         \* loads of the other requests

Writers == 1..MaxWriters

\* The entry each admin request adds, and the entries of the file at start
AddedBy == [w \in Writers |-> <<"X", "Y", "Z", "W">>[w]]
StartEntries == {"A"}

ConfigIdle ==
    /\ cfFile = [names |-> StartEntries, whole |-> TRUE]
    /\ cfWritten = {StartEntries}
    /\ cfLoad = [ok |-> FALSE, names |-> {"-"}]
    /\ cfLoads = 0
    /\ wrPc = [w \in Writers |-> "idle"]
    /\ wrData = [w \in Writers |-> {}]
    /\ wrDirty = [w \in Writers |-> FALSE]

MaxStamp == 2         \* timestamps the source goes through: 0..MaxStamp

NoStamp == 0 - 1      \* None: nothing recorded, nothing read

\* Hours of the day the scheduler is observed at: quiet in both loops, quiet
\* in one of them only, and working hours
Hours == {4, 5, 12, 19}

SchedIdle ==
    /\ scVariant = "-"
    /\ scPc = "top"
    /\ scHour \in {12}
    /\ scSource = 0
    /\ scLast = NoStamp
    /\ scSeen = NoStamp
    /\ scAgencies = "-"

PollIdle ==
    /\ poVariant = "-"
    /\ poPc = "idle"
    /\ poElapsed = 0
    /\ poPolls = 0
    /\ poTimedOut = FALSE
    /\ poOut = "-"

Runs == {"scheduled", "admin"}

OverlapIdle ==
    /\ ovPc = [r \in Runs |-> "idle"]
    /\ ovTypes = [r \in Runs |-> <<>>]
    /\ ovMeta = [r \in Runs |-> <<>>]
    /\ ovFailed = [r \in Runs |-> FALSE]

PromoteIdle ==
    /\ pmPc = [r \in Runs |-> "idle"]
    /\ pmTodo = [r \in Runs |-> {}]
    /\ pmOk = [r \in Runs |-> {}]
    /\ pmBatch = [r \in Runs |-> <<>>]
    /\ pmQueue = [r \in Runs |-> <<>>]

MaxEntries == 2       \* AccessLog.max_entries
MaxThreads == 2       \* request threads that use the access log

AccessThreads == 1..MaxThreads

EndpointNames == {"sales", "stock"}

NoCall == [name |-> "-", nested |-> FALSE]

AccessIdle ==
    /\ alLogs = <<>>
    /\ alLock = 0
    /\ alPc = [t \in AccessThreads |-> "idle"]
    /\ alNames = [t \in AccessThreads |-> {}]
    /\ alCall = [t \in AccessThreads |-> NoCall]
    /\ alStats = [t \in AccessThreads |-> {}]
    /\ alCache = {}
    /\ alFresh = FALSE

LateIdle == SchedIdle /\ PollIdle /\ OverlapIdle /\ PromoteIdle /\ AccessIdle

ExtraIdle == FrameIdle /\ ConfigIdle /\ LateIdle

MainIdle ==
    /\ StoreIdle /\ RefreshIdle /\ ReadIdle /\ SmartIdle /\ GetIdle /\ MoreIdle
    /\ ExtraIdle

----------------------------------------------------------------------------
(* resolve_cache_policy applied to one drawn input.                        *)

PolicyInit ==
    /\ pcfg \in CfgInputs
    /\ pres = "unset"
    /\ pvariant = "unset"
    /\ PageIdle
    /\ MainIdle

PolicyResolveStore ==
    /\ pres = "unset"
    /\ pres' = resolve_cache_policy(pcfg)
    /\ pvariant' = "config_store"
    /\ UNCHANGED <<pcfg, pageVars, storeVars, refreshVars, readVars,
                 smartVars, getVars, moreVars>>

PolicyResolveHerald ==
    /\ pres = "unset"
    /\ pres' = herald_resolve_cache_policy(pcfg)
    /\ pvariant' = "herald"
    /\ UNCHANGED <<pcfg, pageVars, storeVars, refreshVars, readVars,
                 smartVars, getVars, moreVars>>

PolicyNext == PolicyResolveStore \/ PolicyResolveHerald

SpecPolicy == PolicyInit /\ [][PolicyNext]_vars

----------------------------------------------------------------------------
(* Pagination of one drawn table.                                          *)

PageInit ==
    /\ pgVariant \in PageVariants
    /\ pgN \in 0..MaxRows
    /\ pgP \in MinPageSize..MaxPageSize
    /\ pgK = 1
    /\ pgAcc = <<>>
    /\ pgPhase = "walk"
    /\ pgPage = 0
    /\ pgLast = PageError("unset")
    /\ PolicyIdle
    /\ MainIdle

\* One more page of the walk over pages 1..ceil(N/P), for P > 0
PageWalk ==
    /\ pgPhase = "walk"
    /\ pgP > 0
    /\ pgK <= CeilDiv(pgN, pgP)
    /\ LET r == Paginate(pgVariant, PageTable(pgN), pgK, pgP)
       IN  /\ r.err = "-"
           /\ pgAcc' = pgAcc \o r.rows
    /\ pgK' = pgK + 1
    /\ UNCHANGED <<pgVariant, pgN, pgP, pgPhase, pgPage, pgLast,
                 policyVars, storeVars, refreshVars, readVars, smartVars, getVars, moreVars>>

PageWalkDone ==
    /\ pgPhase = "walk"
    /\ pgP > 0
    /\ pgK > CeilDiv(pgN, pgP)
    /\ pgPhase' = "walked"
    /\ UNCHANGED <<pgVariant, pgN, pgP, pgK, pgAcc, pgPage, pgLast,
                 policyVars, storeVars, refreshVars, readVars, smartVars, getVars, moreVars>>

\* A single request for an arbitrary page
PageRequest(page) ==
    /\ pgPhase \in {"walk", "walked"}
    /\ pgPage' = page
    /\ pgLast' = Paginate(pgVariant, PageTable(pgN), page, pgP)
    /\ pgPhase' = "asked"
    /\ UNCHANGED <<pgVariant, pgN, pgP, pgK, pgAcc,
                 policyVars, storeVars, refreshVars, readVars, smartVars, getVars, moreVars>>

PageNext ==
    \/ PageWalk
    \/ PageWalkDone
    \/ \E page \in MinPage..MaxPage : PageRequest(page)

SpecPage == PageInit /\ [][PageNext]_vars

----------------------------------------------------------------------------
(* refresh_full_reports (cache_refresher/full_report_refresher.py).        *)

MaxRuns == 2          \* refresh runs in a run of the model

RefreshInputs ==
    { [given |-> FALSE, names |-> <<>>],
      [given |-> TRUE, names |-> <<"A", "B">>],
      [given |-> TRUE, names |-> <<"B", "A">>],
      [given |-> TRUE, names |-> <<"U", "B">>],
      [given |-> TRUE, names |-> <<"N", "P">>],
      [given |-> TRUE, names |-> <<>>] }

IsDaily(name) ==
    herald_resolve_cache_policy(ConfigFile[name].policy) = CACHE_POLICY_DAILY

\* daily_reports, in file order
DailyReports == SelectSeq(ConfiguredReports, IsDaily)

\* result["errors"].setdefault(name, []).append(text)
AppendError(errors, name, text) ==
    IF name \in DOMAIN errors
    THEN [errors EXCEPT ![name] = Append(@, text)]
    ELSE (name :> <<text>>) @@ errors

\* d[name] = value
Put(d, name, value) == (name :> value) @@ d

\* The validation loop over report_names: result and to_process
RECURSIVE ValidateNames(_, _, _)
ValidateNames(names, result, toProcess) ==
    IF names = <<>> THEN [result |-> result, to_process |-> toProcess]
    ELSE LET name == Head(names)
         IN  IF ~InConfig(name)
             THEN ValidateNames(Tail(names),
                     [result EXCEPT !.errors = AppendError(@, name,
                         <<"-", "Report not defined in configuration.">>)],
                     toProcess)
             ELSE IF ~IsDaily(name)
             THEN ValidateNames(Tail(names),
                     [result EXCEPT !.skipped = Put(@, name,
                         "cache_policy is not daily, refresh ignored.")],
                     toProcess)
             ELSE ValidateNames(Tail(names), result,
                     IF \E k \in 1..Len(toProcess) : toProcess[k] = name
                     THEN toProcess ELSE Append(toProcess, name))

\* An except block that records the error for the first report only
ConnectionUnavailable_FirstOnly(names, errors) ==
    IF names = <<>> THEN errors
    ELSE AppendError(errors, Head(names),
                     <<"-", "MicroStrategy connection unavailable.">>)

\* Lines 107-114: the except block of create_connection()
RECURSIVE ConnectionUnavailable(_, _)
ConnectionUnavailable(names, errors) ==
    IF names = <<>> THEN errors
    ELSE ConnectionUnavailable(Tail(names),
            AppendError(errors, Head(names),
                        <<"-", "MicroStrategy connection unavailable.">>))

\* [info_type for info_type, viz_key in viz_keys.items() if viz_key]
ConfiguredInfoTypes(cfg) ==
    LET has(pair) == pair[2] # NoParam
        kept == SelectSeq(cfg.viz_keys, has)
    IN  [k \in 1..Len(kept) |-> kept[k][1]]

\* Lines 75-102: requested, result and to_process
Validated(input) ==
    IF input.given
    THEN ValidateNames(input.names,
                       [EmptyResult EXCEPT !.requested = input.names], <<>>)
    ELSE [result |-> [EmptyResult EXCEPT !.requested = DailyReports],
          to_process |-> DailyReports]

\* Lines 75-114: validation, early return, create_connection()
RefreshStart(input, connects) ==
    /\ rfPc \in {"idle", "returned", "raised"}
    /\ rfRun < MaxRuns
    /\ \E checked \in {Validated(input)} :
          /\ rfEligible' = checked.to_process
          /\ IF checked.to_process = <<>>
             THEN /\ connects
                  /\ rfResult' = checked.result
                  /\ rfPc' = "returned"
                  /\ rfQueue' = <<>>
                  /\ rfConn' = 0
                  /\ connOpened' = 0
             ELSE IF connects
             THEN /\ rfResult' = checked.result
                  /\ rfPc' = "report"
                  /\ rfQueue' = checked.to_process
                  /\ rfConn' = 1
                  /\ connOpened' = 1
             ELSE /\ rfResult' = [checked.result EXCEPT !.errors =
                                     ConnectionUnavailable(checked.to_process, @)]
                  /\ rfPc' = "returned"
                  /\ rfQueue' = <<>>
                  /\ rfConn' = 0
                  /\ connOpened' = 0
    /\ rfRun' = rfRun + 1
    /\ rfInput' = input
    /\ rfCur' = "-"
    /\ rfTypes' = <<>>
    /\ rfMeta' = <<>>
    /\ rfErrs' = <<>>
    /\ rfExc' = FALSE
    /\ connClosed' = 0
    /\ fetchConns' = {}
    /\ rfLog' = <<>>
    /\ UNCHANGED <<storeVars, readVars, policyVars, pageVars,
                 smartVars, getVars, moreVars>>

\* Lines 117-135: next report of to_process, its info_types
RefreshReport ==
    /\ rfPc = "report"
    /\ IF rfQueue = <<>>
       THEN /\ rfPc' = "closing"
            /\ UNCHANGED <<rfResult, rfQueue, rfCur, rfTypes, rfMeta, rfErrs>>
       ELSE LET report_name == Head(rfQueue)
                info_types == ConfiguredInfoTypes(ConfigFile[report_name])
            IN  IF info_types = <<>>
                THEN /\ rfResult' = [rfResult EXCEPT !.skipped =
                            Put(@, report_name, "No viz_keys defined for caching.")]
                     /\ rfQueue' = Tail(rfQueue)
                     /\ UNCHANGED <<rfPc, rfCur, rfTypes, rfMeta, rfErrs>>
                ELSE /\ rfCur' = report_name
                     /\ rfTypes' = info_types
                     /\ rfMeta' = <<>>
                     /\ rfErrs' = <<>>
                     /\ rfPc' = "info"
                     /\ UNCHANGED <<rfResult, rfQueue>>
    /\ UNCHANGED <<rfRun, rfInput, rfEligible, rfExc, rfConn, connOpened,
                   connClosed, fetchConns, rfLog>>
    /\ UNCHANGED <<storeVars, readVars, policyVars, pageVars,
                 smartVars, getVars, moreVars>>

StepOutcomes == {"ok", "fetch_raises", "set_raises"}

\* A handler that lets a failure of the fetch escape
Caught_StoreErrorsOnly(outcome) == outcome = "set_raises"

\* Lines 157-163: "except Exception" around one info_type catches a
\* failure of the fetch and a failure of the Redis SET alike
Caught(outcome) == outcome \in {"fetch_raises", "set_raises"}

\* Lines 137-163: one info_type: fetch, rename, agency codes, SET, record
RefreshInfoType(outcome) ==
    /\ rfPc = "info"
    /\ rfTypes # <<>>
    /\ fetchConns' = fetchConns \cup {rfConn}
    /\ rfLog' = Append(rfLog, <<rfCur, Head(rfTypes), outcome>>)
    /\ IF outcome = "ok"
       THEN \E df \in {RefreshFrames[rfCur, Head(rfTypes), srcVer]} :
               /\ cache' = [cache EXCEPT ![RefreshCacheKey(rfCur, Head(rfTypes))] = df]
               /\ hist' = [hist EXCEPT ![RefreshCacheKey(rfCur, Head(rfTypes))] =
                               @ \cup {srcVer}]
               /\ rfMeta' = Append(rfMeta,
                      [info_type |-> Head(rfTypes), rows |-> Len(df.rows),
                       columns |-> df.cols,
                       cache_key |-> RefreshCacheKey(rfCur, Head(rfTypes))])
               /\ rfTypes' = Tail(rfTypes)
               /\ rfPc' = IF Tail(rfTypes) = <<>> THEN "meta" ELSE "info"
               /\ UNCHANGED <<rfErrs, rfExc>>
       ELSE IF Caught(outcome)
       THEN /\ rfErrs' = Append(rfErrs, <<Head(rfTypes), outcome>>)
            /\ rfTypes' = Tail(rfTypes)
            /\ rfPc' = IF Tail(rfTypes) = <<>> THEN "meta" ELSE "info"
            /\ UNCHANGED <<cache, hist, rfMeta, rfExc>>
       ELSE /\ rfExc' = TRUE
            /\ rfPc' = "closing"
            /\ UNCHANGED <<cache, hist, rfMeta, rfErrs, rfTypes>>
    /\ UNCHANGED <<rfRun, rfInput, rfResult, rfEligible, rfQueue, rfCur,
                   rfConn, connOpened, connClosed>>
    /\ UNCHANGED <<meta, srcVer, readVars, policyVars, pageVars,
                 smartVars, getVars, moreVars>>

\* result["errors"][report_name] = errors_for_report, when there are any
WithErrors(result, report_name, errors_for_report) ==
    IF errors_for_report # <<>>
    THEN [result EXCEPT !.errors = Put(@, report_name, errors_for_report)]
    ELSE result

\* Lines 165-173: metadata SET and the three result maps; the SET is not
\* inside any try of the loop
RefreshMeta(stored) ==
    /\ rfPc = "meta"
    /\ IF rfMeta # <<>>
       THEN \E refreshed_meta \in {[present |-> TRUE, refreshed_at |-> rfRun,
                                    info_types |-> rfMeta,
                                    partial |-> rfErrs # <<>>]} :
               /\ rfLog' = Append(rfLog, <<rfCur, "meta",
                                           IF stored THEN "ok" ELSE "set_raises">>)
               /\ IF stored
                  THEN /\ meta' = [meta EXCEPT ![rfCur] = refreshed_meta]
                       /\ rfResult' = WithErrors(
                              [rfResult EXCEPT !.refreshed =
                                  Put(@, rfCur, refreshed_meta)],
                              rfCur, rfErrs)
                       /\ rfQueue' = Tail(rfQueue)
                       /\ rfPc' = "report"
                       /\ UNCHANGED rfExc
                  ELSE /\ rfExc' = TRUE
                       /\ rfPc' = "closing"
                       /\ UNCHANGED <<meta, rfResult, rfQueue>>
       ELSE /\ stored
            /\ rfResult' = WithErrors(
                   [rfResult EXCEPT !.skipped =
                       Put(@, rfCur, "All info types failed to refresh.")],
                   rfCur, rfErrs)
            /\ rfQueue' = Tail(rfQueue)
            /\ rfPc' = "report"
            /\ UNCHANGED <<meta, rfExc, rfLog>>
    /\ UNCHANGED <<rfRun, rfInput, rfEligible, rfCur, rfTypes, rfMeta, rfErrs,
                   rfConn, connOpened, connClosed, fetchConns>>
    /\ UNCHANGED <<cache, srcVer, hist, readVars, policyVars, pageVars,
                 smartVars, getVars, moreVars>>

\* A loop without the finally: close() only on the normal path
RefreshClose_OnlyOnSuccess ==
    /\ rfPc = "closing"
    /\ connClosed' = IF rfExc THEN connClosed ELSE connClosed + 1
    /\ rfPc' = IF rfExc THEN "raised" ELSE "returned"
    /\ UNCHANGED <<rfRun, rfInput, rfResult, rfEligible, rfQueue, rfCur,
                   rfTypes, rfMeta, rfErrs, rfExc, rfConn, connOpened,
                   fetchConns, rfLog>>
    /\ UNCHANGED <<storeVars, readVars, policyVars, pageVars,
                 smartVars, getVars, moreVars>>

\* Lines 175-181: finally conn.close(), then return or re-raise
RefreshClose ==
    /\ rfPc = "closing"
    /\ connClosed' = connClosed + 1
    /\ rfPc' = IF rfExc THEN "raised" ELSE "returned"
    /\ UNCHANGED <<rfRun, rfInput, rfResult, rfEligible, rfQueue, rfCur,
                   rfTypes, rfMeta, rfErrs, rfExc, rfConn, connOpened,
                   fetchConns, rfLog>>
    /\ UNCHANGED <<storeVars, readVars, policyVars, pageVars,
                 smartVars, getVars, moreVars>>

\* The source systems load new data
SourceUpdate ==
    /\ srcVer < MaxVer
    /\ srcVer' = srcVer + 1
    /\ UNCHANGED <<cache, meta, hist, refreshVars, readVars, policyVars, pageVars,
                 smartVars, getVars, moreVars>>

----------------------------------------------------------------------------
(* refresh_report_smart (cache_refresher/cache_refresher.py): workers SET  *)
(* backup keys through redis_batch, then the backup keys are promoted.     *)

\* fetch_agency_codes: Series.unique() of the agency column
AgencyList == <<100, 200>>

BatchSize == 50       \* BatchRedisProcessor(batch_size=50)

SetOp(key, value) == [op |-> "SET", key |-> key, value |-> value]
DelOp(key) == [op |-> "DEL", key |-> key, value |-> Absent]
RenameOp(key) == [op |-> "RENAME", key |-> key, value |-> Absent]

Store(act, bak, h) == [active |-> act, backup |-> bak, hist |-> h]

\* One command as the Redis server executes it: SET of a backup key, DEL
\* of an active key, RENAME of a backup key to its active key (an error
\* that changes nothing when the backup key does not exist)
Execute(st, cmd) ==
    CASE cmd.op = "SET" ->
           Store(st.active, [st.backup EXCEPT ![cmd.key] = cmd.value], st.hist)
      [] cmd.op = "DEL" ->
           Store([st.active EXCEPT ![cmd.key] = Absent], st.backup, st.hist)
      [] OTHER ->
           IF ~st.backup[cmd.key].present THEN st
           ELSE Store([st.active EXCEPT ![cmd.key] = st.backup[cmd.key]],
                      [st.backup EXCEPT ![cmd.key] = Absent],
                      [st.hist EXCEPT ![cmd.key] = @ \cup {st.backup[cmd.key]}])

RECURSIVE ExecuteAll(_, _)
ExecuteAll(st, cmds) ==
    IF cmds = <<>> THEN st ELSE ExecuteAll(Execute(st, Head(cmds)), Tail(cmds))

\* A pipeline whose commands reach the server one by one
Transaction_OneCommandAtATime(cmds) == 1

\* redis_client.pipeline() is a redis-py pipeline with transaction=True:
\* execute() sends MULTI, the commands and EXEC, and the server runs all
\* of them as one step
Transaction(cmds) == Len(cmds)

\* Lines 433-441 and 336-349: one report of cacheable_reports starts
SmartStart(report) ==
    /\ smPc = "idle"
    /\ smRun < MaxRuns
    /\ smRun' = smRun + 1
    /\ smReport' = report
    /\ smTodo' = {AgencyList[k] : k \in 1..Len(AgencyList)}
    /\ smPc' = "workers"
    /\ UNCHANGED <<active, backup, smBatch, smQueue, smHist>>
    /\ UNCHANGED <<storeVars, refreshVars, readVars, policyVars, pageVars, getVars, moreVars>>

\* Lines 302-329 with 272-292: process_agency_worker of one agency, in
\* the order the thread pool runs them; add_set_operation flushes when
\* the batch is full
SmartWorker(agency, fetched) ==
    /\ smPc = "workers"
    /\ agency \in smTodo
    /\ smTodo' = smTodo \ {agency}
    /\ \E df \in {SmartFrames[SmartKey(smReport, agency), srcVer]} :
          IF fetched /\ ~IsEmpty(df)
          THEN \E ops \in {Append(smBatch, SetOp(SmartKey(smReport, agency), df))} :
                  IF Len(ops) >= BatchSize
                  THEN /\ backup' = ExecuteAll(Store(active, backup, smHist), ops).backup
                       /\ smBatch' = <<>>
                  ELSE /\ smBatch' = ops
                       /\ UNCHANGED backup
          ELSE UNCHANGED <<backup, smBatch>>
    /\ UNCHANGED <<active, smPc, smRun, smReport, smQueue, smHist>>
    /\ UNCHANGED <<storeVars, refreshVars, readVars, policyVars, pageVars, getVars, moreVars>>

\* Lines 370-371 with 278-292: redis_batch.flush() once every worker is
\* done; a failure of the pipeline is logged and the operations dropped
SmartFlush(flushed) ==
    /\ smPc = "workers"
    /\ smTodo = {}
    /\ backup' = IF flushed
                 THEN ExecuteAll(Store(active, backup, smHist), smBatch).backup
                 ELSE backup
    /\ smBatch' = <<>>
    /\ smPc' = "flushed"
    /\ UNCHANGED <<active, smRun, smReport, smTodo, smQueue, smHist>>
    /\ UNCHANGED <<storeVars, refreshVars, readVars, policyVars, pageVars, getVars, moreVars>>

\* Lines 399-405: DEL and RENAME are queued for every agency whose backup
\* key exists
RECURSIVE PromoteCommands(_, _, _)
PromoteCommands(report_name, agency_codes, bak) ==
    IF agency_codes = <<>> THEN <<>>
    ELSE (IF bak[SmartKey(report_name, Head(agency_codes))].present
          THEN << DelOp(SmartKey(report_name, Head(agency_codes))),
                  RenameOp(SmartKey(report_name, Head(agency_codes))) >>
          ELSE <<>>)
         \o PromoteCommands(report_name, Tail(agency_codes), bak)

SmartPromoteQueue ==
    /\ smPc = "flushed"
    /\ smQueue' = PromoteCommands(smReport, AgencyList, backup)
    /\ smPc' = "queued"
    /\ UNCHANGED <<active, backup, smRun, smReport, smTodo, smBatch, smHist>>
    /\ UNCHANGED <<storeVars, refreshVars, readVars, policyVars, pageVars, getVars, moreVars>>

\* Lines 407-411: pipe.execute(); an exception is logged and the function
\* returns
SmartPromoteExecute(executed) ==
    /\ smPc = "queued"
    /\ IF ~executed \/ smQueue = <<>>
       THEN /\ smQueue' = <<>>
            /\ smPc' = "idle"
            /\ UNCHANGED <<active, backup, smHist>>
       ELSE \E n \in {Transaction(smQueue)} :
            \E st \in {ExecuteAll(Store(active, backup, smHist),
                                  SubSeq(smQueue, 1, n))} :
               /\ active' = st.active
               /\ backup' = st.backup
               /\ smHist' = st.hist
               /\ smQueue' = SubSeq(smQueue, n + 1, Len(smQueue))
               /\ smPc' = IF n = Len(smQueue) THEN "idle" ELSE "queued"
    /\ UNCHANGED <<smRun, smReport, smTodo, smBatch>>
    /\ UNCHANGED <<storeVars, refreshVars, readVars, policyVars, pageVars, getVars, moreVars>>

\* services/cache_service.py get_dataframe: one GET by any client
CacheGet(key) ==
    /\ gtKey' = key
    /\ gtVal' = IF key \in SmartKeys THEN active[key] ELSE get_dataframe(key)
    /\ gtWritten' = IF key \in SmartKeys THEN smHist[key] # {} ELSE hist[key] # {}
    /\ UNCHANGED <<storeVars, refreshVars, readVars, policyVars, pageVars, smartVars,
                   moreVars>>

----------------------------------------------------------------------------
(* Read requests: web/blueprints/reports.py with                           *)
(* services/report_service.py, and the api_v3.py routes.                   *)

Req(h, r, t, page, size, agency) ==
    [handler |-> h, report |-> r, info_type |-> t, page |-> page,
     page_size |-> size, agency |-> agency]

Requests ==
    { Req("reports_bp", "A", "summary", 1, 10, NoAgency),
      Req("reports_bp", "A", "summary", 1, 10, 100),
      Req("reports_bp", "A", "detail", 2, 2, NoAgency),
      Req("reports_bp", "B", "summary", 1, 10, NoAgency),
      Req("reports_bp", "N", "summary", 1, 10, 200),
      Req("reports_bp", "N", "detail", 1, 10, NoAgency),
      Req("reports_bp", "P", "summary", 1, 10, NoAgency),
      Req("reports_bp", "P", "detail", 1, 10, NoAgency),
      Req("reports_bp", "U", "summary", 1, 10, NoAgency),
      Req("api_v3", "A", "summary", 1, 10, 100),
      Req("api_v3", "A", "summary", 1, 10, NoAgency),
      Req("api_v3", "B", "summary", 1, 10, NoAgency),
      Req("api_v3", "N", "summary", 2, 2, 100),
      Req("api_v3", "U", "summary", 1, 10, 100) }

RespError(status) == [NoResponse EXCEPT !.status = status]

\* A response body that reports cache_hit in place of use_cache
RespPayload_HitAsCached(data, total_rows, total_pages, policy, use_cache, cache_hit, cube_time) ==
    [status |-> 200, data |-> data, total_rows |-> total_rows,
     total_pages |-> total_pages, flags |-> TRUE, cache_policy |-> policy,
     is_cached |-> cache_hit, cache_hit |-> cache_hit, cube_time |-> cube_time]

RespPayload(data, total_rows, total_pages, policy, use_cache, cache_hit, cube_time) ==
    [status |-> 200, data |-> data, total_rows |-> total_rows,
     total_pages |-> total_pages, flags |-> TRUE, cache_policy |-> policy,
     is_cached |-> use_cache, cache_hit |-> cache_hit, cube_time |-> cube_time]

\* The "No data found for the given criteria" body of api_v3: no flags
RespNoData(cube_time) ==
    [NoResponse EXCEPT !.status = 200, !.cube_time = cube_time]

\* services/config_store.py: the data_policy field of the endpoint
resolve_data_policy(cfg) == cfg.data_policy

Plan(status, key, policy) == [status |-> status, key |-> key, policy |-> policy]

\* get_report_payload up to the cache key: 404, 400 or the key to look up
ServicePlan(req) ==
    LET For(cfg, data_policy, cache_policy) ==
            IF IF data_policy = DATA_POLICY_POSTGRESQL
               THEN req.info_type # "summary"
               ELSE VizKey(cfg, req.info_type) = NoParam
            THEN Plan(400, NoKey, "-")
            ELSE IF cache_policy \notin {CACHE_POLICY_NONE, CACHE_POLICY_DAILY}
            THEN Plan(500, NoKey, "-")
            ELSE IF cache_policy = CACHE_POLICY_DAILY
            THEN Plan(0, build_cache_key(req.report,
                                         IF data_policy = DATA_POLICY_MICROSTRATEGY
                                         THEN req.info_type ELSE "summary",
                                         "all"),
                      cache_policy)
            ELSE Plan(0, NoKey, cache_policy)
    IN  IF ~InConfig(req.report) THEN Plan(404, NoKey, "-")
        ELSE For(ConfigFile[req.report],
                 resolve_data_policy(ConfigFile[req.report]),
                 resolve_cache_policy(ConfigFile[req.report].policy))

\* api_v3 routes up to the cache key
V3Plan(req) ==
    LET For(cfg, cache_policy) ==
            IF req.agency = NoAgency /\ cfg.agency_filter # NoParam
            THEN Plan(400, NoKey, "-")
            ELSE IF \A k \in 1..Len(cfg.viz_keys) : cfg.viz_keys[k][1] # req.info_type
            THEN Plan(400, NoKey, "-")
            ELSE IF cache_policy \notin {CACHE_POLICY_NONE, CACHE_POLICY_DAILY}
            THEN Plan(500, NoKey, "-")
            ELSE IF cache_policy = CACHE_POLICY_DAILY
            THEN Plan(0, RefreshCacheKey(req.report, req.info_type), cache_policy)
            ELSE Plan(0, NoKey, cache_policy)
    IN  IF ~InConfig(req.report) THEN Plan(404, NoKey, "-")
        ELSE For(ConfigFile[req.report],
                 herald_resolve_cache_policy(ConfigFile[req.report].policy))

RequestPlan(req) ==
    IF req.handler = "reports_bp" THEN ServicePlan(req) ELSE V3Plan(req)

\* A refresh has returned with this report and info_type in refreshed,
\* holding at least one row, and no run has started since
RefreshedBefore(req) ==
    /\ rfPc = "returned"
    /\ req.report \in DOMAIN rfResult.refreshed
    /\ \E k \in 1..Len(rfResult.refreshed[req.report].info_types) :
          LET e == rfResult.refreshed[req.report].info_types[k]
          IN  e.info_type = req.info_type /\ e.rows > 0

\* Request parsing, configuration checks and the cache GET
ReadStart(req) ==
    /\ rdPc = "idle"
    /\ rdReq' = req
    /\ rdLive' = 0
    /\ rdAfter' = RefreshedBefore(req)
    /\ \E plan \in {RequestPlan(req)} :
          IF plan.status # 0
          THEN /\ rdPc' = "responded"
               /\ rdResp' = RespError(plan.status)
               /\ rdDf' = Absent
               /\ rdReads' = 0
          ELSE /\ rdPc' = "looked"
               /\ rdResp' = NoResponse
               /\ rdDf' = IF plan.key = NoKey THEN Absent
                          ELSE get_dataframe(plan.key)
               /\ rdReads' = IF plan.key = NoKey THEN 0 ELSE 1
    /\ UNCHANGED <<storeVars, refreshVars, policyVars, pageVars,
                 smartVars, getVars, moreVars>>

Outcome(resp, live) == [resp |-> resp, live |-> live]

\* A get_report_payload that calls _fetch_remote a second time when the
\* first call raised
ServiceRespond_Retrying(req, cached, liveOk, ver) ==
    LET Answer(policy, hit, cube_time, paged) ==
            Outcome(RespPayload(dataframe_to_records(paged.rows),
                                paged.total_rows, paged.total_pages,
                                policy, policy = CACHE_POLICY_DAILY, hit, cube_time),
                    IF hit THEN 0 ELSE 1)
        Serve(policy, hit, prepared) ==
            Answer(policy, hit, prepared.cube_time,
                   _paginate(prepared.df.rows, req.page, req.page_size))
        Decide(policy, hit) ==
            IF ~hit /\ ~liveOk THEN Outcome(RespError(500), 2)
            ELSE Serve(policy, hit,
                       _prepare_dataframe(
                           IF hit THEN cached
                           ELSE IF resolve_data_policy(ConfigFile[req.report])
                                      = DATA_POLICY_POSTGRESQL
                           THEN fetch_table_dataframe(req.report, ver)
                           ELSE fetch_report_dataframe(req.report, req.agency,
                                                       req.info_type, ver),
                           NoFilters, req.agency))
        WithPolicy(policy) ==
            Decide(policy,
                   policy = CACHE_POLICY_DAILY /\ cached.present /\ ~IsEmpty(cached))
    IN  WithPolicy(ServicePlan(req).policy)

\* get_report_payload from the cache result on; _fetch_remote is called
\* once when df is None
ServiceRespond(req, cached, liveOk, ver) ==
    LET Answer(policy, hit, cube_time, paged) ==
            Outcome(RespPayload(dataframe_to_records(paged.rows),
                                paged.total_rows, paged.total_pages,
                                policy, policy = CACHE_POLICY_DAILY, hit, cube_time),
                    IF hit THEN 0 ELSE 1)
        Serve(policy, hit, prepared) ==
            Answer(policy, hit, prepared.cube_time,
                   _paginate(prepared.df.rows, req.page, req.page_size))
        Decide(policy, hit) ==
            IF ~hit /\ ~liveOk THEN Outcome(RespError(500), 1)
            ELSE Serve(policy, hit,
                       _prepare_dataframe(
                           IF hit THEN cached
                           ELSE IF resolve_data_policy(ConfigFile[req.report])
                                      = DATA_POLICY_POSTGRESQL
                           THEN fetch_table_dataframe(req.report, ver)
                           ELSE fetch_report_dataframe(req.report, req.agency,
                                                       req.info_type, ver),
                           NoFilters, req.agency))
        WithPolicy(policy) ==
            Decide(policy,
                   policy = CACHE_POLICY_DAILY /\ cached.present /\ ~IsEmpty(cached))
    IN  WithPolicy(ServicePlan(req).policy)

\* api_v3 routes from the cache result on
V3Respond(req, cached, liveOk, ver) ==
    LET Answer(policy, hit, processed, paged) ==
            IF req.agency # NoAgency /\ IsEmpty(processed.df)
            THEN Outcome(RespNoData(processed.cube_time), IF hit THEN 0 ELSE 1)
            ELSE IF paged.err # "-" THEN Outcome(RespError(500), IF hit THEN 0 ELSE 1)
            ELSE Outcome(RespPayload(dataframe_to_records(paged.rows),
                                     paged.total_rows, paged.total_pages,
                                     policy, policy = CACHE_POLICY_DAILY, hit,
                                     processed.cube_time),
                         IF hit THEN 0 ELSE 1)
        Serve(policy, hit, processed) ==
            Answer(policy, hit, processed,
                   paginate_data(processed.df.rows, req.page, req.page_size))
        Decide(policy, hit) ==
            IF ~hit /\ (~liveOk \/ VizKey(ConfigFile[req.report], req.info_type) = NoParam)
            THEN Outcome(RespError(500), 1)
            ELSE Serve(policy, hit,
                       process_dataframe(
                           IF ~hit
                           THEN fetch_report_csv(req.report, req.agency,
                                                 req.info_type, ver)
                           ELSE IF req.agency # NoAgency
                           THEN filter_df_by_agency(cached, req.agency)
                           ELSE cached))
        WithPolicy(policy) ==
            Decide(policy, policy = CACHE_POLICY_DAILY /\ cached.present)
    IN  WithPolicy(V3Plan(req).policy)

Respond(req, cached, liveOk, ver) ==
    IF req.handler = "reports_bp" THEN ServiceRespond(req, cached, liveOk, ver)
    ELSE V3Respond(req, cached, liveOk, ver)

\* Respond over the frames a lookup can return, computed once
LookupResults ==
    {Absent} \cup {RefreshFrames[x] : x \in DOMAIN RefreshFrames}

Responses ==
    [req \in Requests |->
        [liveOk \in BOOLEAN |->
            [ver \in 0..MaxVer |->
                [cached \in LookupResults |-> Respond(req, cached, liveOk, ver)]]]]

\* The rest of the request: live fetch when needed, preparation, paging
ReadFinish(liveOk) ==
    /\ rdPc = "looked"
    /\ \E out \in {IF rdDf \in LookupResults
                    THEN Responses[rdReq][liveOk][srcVer][rdDf]
                    ELSE Respond(rdReq, rdDf, liveOk, srcVer)} :
          /\ liveOk \/ out.live > 0
          /\ rdResp' = out.resp
          /\ rdLive' = out.live
    /\ rdPc' = "responded"
    /\ UNCHANGED <<rdReq, rdDf, rdReads, rdAfter>>
    /\ UNCHANGED <<storeVars, refreshVars, policyVars, pageVars,
                 smartVars, getVars, moreVars>>

\* The response is sent; the worker takes the next request
ReadReturn ==
    /\ rdPc = "responded"
    /\ rdPc' = "idle"
    /\ rdReq' = NoRequest
    /\ rdDf' = Absent
    /\ rdLive' = 0
    /\ rdReads' = 0
    /\ rdAfter' = FALSE
    /\ rdResp' = NoResponse
    /\ UNCHANGED <<storeVars, refreshVars, policyVars, pageVars,
                 smartVars, getVars, moreVars>>

Init == MainIdle /\ PolicyIdle /\ PageIdle

\* Refresh runs that the read requests are interleaved with: the scheduled
\* run and a run by name, over a connection that opens and a metadata
\* write that succeeds
ServedInputs ==
    { [given |-> FALSE, names |-> <<>>],
      [given |-> TRUE, names |-> <<"B", "A">>] }

ServedRuns == MaxRuns - 1

ServedVer == MaxVer - 1

ServedOutcomes == {"ok", "fetch_raises"}

ServedRequests ==
    { Req("reports_bp", "A", "summary", 1, 10, NoAgency),
      Req("reports_bp", "A", "detail", 2, 2, NoAgency),
      Req("reports_bp", "N", "summary", 1, 10, 200),
      Req("reports_bp", "P", "summary", 1, 10, NoAgency),
      Req("reports_bp", "N", "detail", 1, 10, NoAgency),
      Req("reports_bp", "P", "detail", 1, 10, NoAgency),
      Req("reports_bp", "U", "summary", 1, 10, NoAgency),
      Req("api_v3", "A", "summary", 1, 10, 100),
      Req("api_v3", "B", "summary", 1, 10, NoAgency),
      Req("api_v3", "U", "summary", 1, 10, 100) }

Next ==
    \/ /\ rfRun < ServedRuns
       /\ \E input \in ServedInputs : RefreshStart(input, TRUE)
    \/ RefreshReport
    \/ \E outcome \in ServedOutcomes : RefreshInfoType(outcome)
    \/ RefreshMeta(TRUE)
    \/ RefreshClose
    \/ srcVer < ServedVer /\ SourceUpdate
    \/ \E req \in ServedRequests : ReadStart(req)
    \/ \E liveOk \in BOOLEAN : ReadFinish(liveOk)
    \/ ReadReturn

Spec == Init /\ [][Next]_vars

\* The refresher alone, with every input and every failure of a step
RefreshNext ==
    \/ \E input \in RefreshInputs, connects \in BOOLEAN :
           RefreshStart(input, connects)
    \/ RefreshReport
    \/ \E outcome \in StepOutcomes : RefreshInfoType(outcome)
    \/ \E stored \in BOOLEAN : RefreshMeta(stored)
    \/ RefreshClose
    \/ SourceUpdate

SpecRefresh == Init /\ [][RefreshNext]_vars

\* Cache GETs interleaved with the steps of both refreshers; MaxRuns
\* bounds the refreshes of both kinds together
SnapshotInput == [given |-> TRUE, names |-> <<"B">>]

\* The smart reports that send the agency filter, so that each agency
\* key holds its own frame
SnapshotReports == {r \in SmartReports : ConfigFile[r].agency_filter # NoParam}

SnapshotKeys ==
    {RefreshCacheKey("B", "summary")}
        \cup {SmartKey(r, a) : r \in SnapshotReports, a \in AgencyCodes}

SnapshotNext ==
    \/ /\ rfRun + smRun < MaxRuns
       /\ RefreshStart(SnapshotInput, TRUE)
    \/ RefreshReport
    \/ \E outcome \in ServedOutcomes : RefreshInfoType(outcome)
    \/ RefreshMeta(TRUE)
    \/ RefreshClose
    \/ SourceUpdate
    \/ /\ rfRun + smRun < MaxRuns
       /\ \E report \in SnapshotReports : SmartStart(report)
    \/ \E agency \in AgencyCodes, fetched \in BOOLEAN : SmartWorker(agency, fetched)
    \/ \E flushed \in BOOLEAN : SmartFlush(flushed)
    \/ SmartPromoteQueue
    \/ \E executed \in BOOLEAN : SmartPromoteExecute(executed)
    \/ \E key \in SnapshotKeys : CacheGet(key)

SpecSnapshot == Init /\ [][SnapshotNext]_vars

----------------------------------------------------------------------------
(* The single-report refresh endpoint (web/blueprints/cache_admin.py,      *)
(* cache_routes.py).                                                       *)

\* cache_refresher.refresh_daily_caches(report_names): the report_names
\* argument of the refresh contract, which refresh_full_reports implements
refresh_daily_caches(report_names) == [given |-> TRUE, names |-> report_names]

\* refresh_single from the summary on; an exception of the refresh leaves
\* the view and is answered 500
refresh_single(report_name, summary, raised) ==
    IF raised THEN 500
    ELSE IF report_name \in DOMAIN summary.refreshed THEN 200
    ELSE IF report_name \in DOMAIN summary.errors THEN 400
    ELSE IF report_name \in DOMAIN summary.skipped THEN 409
    ELSE 404

\* refresh_single: refresh_daily_caches([report_name]) is called
RefreshSingleCall(report_name, connects) ==
    /\ epRun = rfRun
    /\ RefreshStart(refresh_daily_caches(<<report_name>>), connects)

\* refresh_single: the refresh has ended and the view answers
RefreshSingleReturn ==
    /\ rfPc \in {"returned", "raised"}
    /\ epRun # rfRun
    /\ epRun' = rfRun
    /\ epName' = rfInput.names[1]
    /\ epStatus' = refresh_single(rfInput.names[1], rfResult, rfPc = "raised")
    /\ UNCHANGED <<policyVars, pageVars, storeVars, refreshVars, readVars,
                   smartVars, getVars, poolVars, extraVars>>

EndpointNext ==
    \/ \E report_name \in ReportNames, connects \in BOOLEAN :
           RefreshSingleCall(report_name, connects)
    \/ RefreshReport
    \/ \E outcome \in StepOutcomes : RefreshInfoType(outcome)
    \/ \E stored \in BOOLEAN : RefreshMeta(stored)
    \/ RefreshClose
    \/ SourceUpdate
    \/ RefreshSingleReturn

SpecEndpoint == Init /\ [][EndpointNext]_vars

----------------------------------------------------------------------------
(* The concurrent refresh mode (cache_refresher/cache_refresher.py): the   *)
(* worker threads of all reports take connections through the pool of      *)
(* their report, under the global connection manager.                      *)

max_retries == 2      \* SmartPerformanceConfig.max_retries
base_delay == 200     \* SmartPerformanceConfig.base_delay, in milliseconds
max_delay == 10000    \* SmartPerformanceConfig.max_delay, in milliseconds

\* What makes a fetch raise: a failure that may pass (a 5xx answer, a
\* dropped connection, the CSV polling timeout) or one that will not (a
\* 4xx answer, an answer without "mid", a CSV that does not parse)
FailureKinds == {"transient", "permanent"}

\* min(config.base_delay * (2 ** attempt), config.max_delay)
RetryDelay(attempt) == Min2(base_delay * (2 ^ attempt), max_delay)

\* refresh_all_reports_smart runs the reports side by side, each with its
\* own pool and its own worker threads
ReportOf(w) == IF w % 2 = 1 THEN "B" ELSE "N"

\* An error handler that gives a slot back whatever conn is
ReleasedOnError_Always(conn) == TRUE

\* fetch_report_csv_controlled, "if conn:" of the except block: the
\* connection is closed and the slot released only when conn is set
ReleasedOnError(conn) == conn

NoSleep == [after |-> "-", delay |-> 0]

\* The end of one attempt that failed: time.sleep(delay) and the next
\* attempt, or the failure is logged and None returned
AfterFailure(w, how) ==
    /\ wkLast' = [wkLast EXCEPT ![w] = IF how \in FailureKinds THEN "fetch" ELSE how]
    /\ IF wkAttempt[w] < max_retries
       THEN /\ wkSlept' = [wkSlept EXCEPT ![w] =
                  [after |-> how, delay |-> RetryDelay(wkAttempt[w] - 1)]]
            /\ wkAttempt' = [wkAttempt EXCEPT ![w] = @ + 1]
            /\ wkPc' = [wkPc EXCEPT ![w] = "start"]
       ELSE /\ wkSlept' = [wkSlept EXCEPT ![w] = NoSleep]
            /\ wkPc' = [wkPc EXCEPT ![w] = "done"]
            /\ UNCHANGED wkAttempt

OtherVars ==
    <<policyVars, pageVars, storeVars, refreshVars, readVars, smartVars,
      getVars, endpointVars, extraVars>>

\* executor.submit(process_agency_worker, args): first attempt begins
WorkerStart(w) ==
    /\ wkPc[w] = "idle"
    /\ wkPc' = [wkPc EXCEPT ![w] = "start"]
    /\ wkAttempt' = [wkAttempt EXCEPT ![w] = 1]
    /\ UNCHANGED <<gcSem, gcCount, plCreated, plIdle, plLock, wkSlots, wkLast, wkSlept>>
    /\ UNCHANGED OtherVars

\* GlobalConnectionManager.acquire: a slot is free and is taken
GlobalAcquire(w) ==
    /\ wkPc[w] = "start"
    /\ gcSem > 0
    /\ gcSem' = gcSem - 1
    /\ gcCount' = gcCount + 1
    /\ wkSlots' = [wkSlots EXCEPT ![w] = @ + 1]
    /\ wkPc' = [wkPc EXCEPT ![w] = "slot"]
    /\ wkSlept' = [wkSlept EXCEPT ![w] = NoSleep]
    /\ UNCHANGED <<plCreated, plIdle, plLock, wkAttempt, wkLast>>
    /\ UNCHANGED OtherVars

\* GlobalConnectionManager.acquire gives False after the timeout: no slot
\* was free; get_connection raises, and the except block of the fetch
\* runs with conn = None
GlobalAcquireTimeout(w) ==
    /\ wkPc[w] = "start"
    /\ gcSem = 0
    /\ IF ReleasedOnError(FALSE)
       THEN /\ gcSem' = gcSem + 1
            /\ gcCount' = Max2(0, gcCount - 1)
            /\ wkSlots' = [wkSlots EXCEPT ![w] = @ - 1]
       ELSE UNCHANGED <<gcSem, gcCount, wkSlots>>
    /\ AfterFailure(w, "limit")
    /\ UNCHANGED <<plCreated, plIdle, plLock>>
    /\ UNCHANGED OtherVars

\* SmartConnectionPool.get_connection after the slot: pool.get_nowait(),
\* else create_connection() under the lock, else pool.get(timeout=30)
\* under the lock
PoolTake(w, created) ==
    /\ wkPc[w] = "slot"
    /\ LET r == ReportOf(w)
       IN  IF plIdle[r] > 0
           THEN /\ created
                /\ plIdle' = [plIdle EXCEPT ![r] = @ - 1]
                /\ wkPc' = [wkPc EXCEPT ![w] = "conn"]
                /\ UNCHANGED <<plCreated, plLock>>
           ELSE /\ plLock[r] = 0
                /\ IF plCreated[r] < PoolSize
                   THEN IF created
                        THEN /\ plCreated' = [plCreated EXCEPT ![r] = @ + 1]
                             /\ wkPc' = [wkPc EXCEPT ![w] = "conn"]
                             /\ UNCHANGED <<plIdle, plLock>>
                        ELSE /\ wkPc' = [wkPc EXCEPT ![w] = "getfail"]
                             /\ UNCHANGED <<plCreated, plIdle, plLock>>
                   ELSE /\ created
                        /\ plLock' = [plLock EXCEPT ![r] = w]
                        /\ wkPc' = [wkPc EXCEPT ![w] = "wait"]
                        /\ UNCHANGED <<plCreated, plIdle>>
    /\ UNCHANGED <<gcSem, gcCount, wkAttempt, wkSlots, wkLast, wkSlept>>
    /\ UNCHANGED OtherVars

\* pool.get(timeout=30) returns a connection that was put back meanwhile
PoolWaitGot(w) ==
    /\ wkPc[w] = "wait"
    /\ plIdle[ReportOf(w)] > 0
    /\ plIdle' = [plIdle EXCEPT ![ReportOf(w)] = @ - 1]
    /\ plLock' = [plLock EXCEPT ![ReportOf(w)] = 0]
    /\ wkPc' = [wkPc EXCEPT ![w] = "conn"]
    /\ UNCHANGED <<gcSem, gcCount, plCreated, wkAttempt, wkSlots, wkLast, wkSlept>>
    /\ UNCHANGED OtherVars

\* pool.get(timeout=30) raises Empty
PoolWaitTimeout(w) ==
    /\ wkPc[w] = "wait"
    /\ plIdle[ReportOf(w)] = 0
    /\ plLock' = [plLock EXCEPT ![ReportOf(w)] = 0]
    /\ wkPc' = [wkPc EXCEPT ![w] = "getfail"]
    /\ UNCHANGED <<gcSem, gcCount, plCreated, plIdle, wkAttempt, wkSlots, wkLast, wkSlept>>
    /\ UNCHANGED OtherVars

\* get_connection, "except Exception": global_conn_mgr.release() and
\* re-raise; then the except block of the fetch runs with conn = None
GetFailRelease(w) ==
    /\ wkPc[w] = "getfail"
    /\ \E n \in {IF ReleasedOnError(FALSE) THEN 2 ELSE 1} :
          /\ gcSem' = gcSem + n
          /\ gcCount' = Max2(0, gcCount - n)
          /\ wkSlots' = [wkSlots EXCEPT ![w] = @ - n]
    /\ AfterFailure(w, "pool")
    /\ UNCHANGED <<plCreated, plIdle, plLock>>
    /\ UNCHANGED OtherVars

\* The fetch succeeded; return_connection: pool.put_nowait(conn), or
\* conn.close() when the pool is full
FetchOk(w) ==
    /\ wkPc[w] = "conn"
    /\ plIdle' = [plIdle EXCEPT ![ReportOf(w)] = Min2(PoolSize, @ + 1)]
    /\ wkPc' = [wkPc EXCEPT ![w] = "put"]
    /\ UNCHANGED <<gcSem, gcCount, plCreated, plLock, wkAttempt, wkSlots, wkLast, wkSlept>>
    /\ UNCHANGED OtherVars

\* return_connection, "finally": global_conn_mgr.release(); df is returned
ReturnRelease(w) ==
    /\ wkPc[w] = "put"
    /\ gcSem' = gcSem + 1
    /\ gcCount' = Max2(0, gcCount - 1)
    /\ wkSlots' = [wkSlots EXCEPT ![w] = @ - 1]
    /\ wkLast' = [wkLast EXCEPT ![w] = "ok"]
    /\ wkPc' = [wkPc EXCEPT ![w] = "done"]
    /\ UNCHANGED <<plCreated, plIdle, plLock, wkAttempt, wkSlept>>
    /\ UNCHANGED OtherVars

\* A request of the fetch raised, or the CSV polling timed out; the except
\* block closes conn
FetchFail(w) ==
    /\ wkPc[w] = "conn"
    /\ wkPc' = [wkPc EXCEPT ![w] = "closed"]
    /\ UNCHANGED <<gcSem, gcCount, plCreated, plIdle, plLock, wkAttempt,
                   wkSlots, wkLast, wkSlept>>
    /\ UNCHANGED OtherVars

\* The except block after conn.close(): global_conn_mgr.release(),
\* conn = None, then retry or give up, whatever kind of exception e is
FailRelease(w, kind) ==
    /\ wkPc[w] = "closed"
    /\ IF ReleasedOnError(TRUE)
       THEN /\ gcSem' = gcSem + 1
            /\ gcCount' = Max2(0, gcCount - 1)
            /\ wkSlots' = [wkSlots EXCEPT ![w] = @ - 1]
       ELSE UNCHANGED <<gcSem, gcCount, wkSlots>>
    /\ AfterFailure(w, kind)
    /\ UNCHANGED <<plCreated, plIdle, plLock>>
    /\ UNCHANGED OtherVars

PoolNext ==
    \E w \in Workers :
        \/ WorkerStart(w)
        \/ GlobalAcquire(w)
        \/ GlobalAcquireTimeout(w)
        \/ \E created \in BOOLEAN : PoolTake(w, created)
        \/ PoolWaitGot(w)
        \/ PoolWaitTimeout(w)
        \/ GetFailRelease(w)
        \/ FetchOk(w)
        \/ ReturnRelease(w)
        \/ FetchFail(w)
        \/ \E kind \in FailureKinds : FailRelease(w, kind)

SpecPool == Init /\ [][PoolNext]_vars

----------------------------------------------------------------------------
(* The frame functions of the read path applied to drawn tables: the       *)
(* column renaming, the agency scoping and the in-memory filters.          *)

MaxFrameRows == 2     \* most rows of a drawn table

AgencyCodeCamel == AgencyChars \o <<"C","o","d","e">>
AgencySpacedCol == <<"A","g","e","n","c","y"," ","C","o","d","e">>
SubAgencyCol == <<"s","u","b","_","a","g","e","n","c","y">>
AcenteUpperCol == <<"A","C","E","N","T","E","_","K","O","D","U">>
BranchCol == <<"b","r","a","n","c","h">>
FirstTotalCol == <<"1","s","t"," ","T","o","t","a","l">>
SubeAdiCol == <<"S-cedilla","u","b","e"," ","A","d","dotless-i">>
AmountUpper == <<"A","M","O","U","N","T">>
UnknownKey == <<"d","o","e","s","n","o","t","e","x","i","s","t">>

FrameNames ==
    {AgencyCodeCamel, AgencySpacedCol, SubAgencyCol, AcenteUpperCol, BranchCol,
     FirstTotalCol, SubeAdiCol}

FrameCodes == {100, 200}

\* The cells a column of one dtype can hold
FrameCells(kind) ==
    CASE kind = "int"   -> {IntCell(v) : v \in FrameCodes}
      [] kind = "float" -> {FloatCell(v) : v \in FrameCodes} \cup {NaNCell}
      [] kind = "str"   -> {StrCell(v) : v \in FrameCodes}
      [] kind = "time"  -> {TimeCell(1), TimeCell(3), NaNCell}

\* A table of two columns: the drawn one, and "amount" numbering the rows
FrameOf(name, cells) ==
    Table(<<name, AmountCol>>, [k \in 1..Len(cells) |-> <<cells[k], IntCell(k)>>])

FramesOf(names, kinds) ==
    UNION { UNION { {FrameOf(name, cells) : cells \in [1..n -> FrameCells(kind)]} :
                    n \in 0..MaxFrameRows } :
            name \in names, kind \in kinds }

Frames ==
    FramesOf(FrameNames, {"int", "float", "str"}) \cup FramesOf({BegDateChars}, {"time"})

ValidFilters ==
    {NoFilters, <<Param(AmountUpper, StrCell(1))>>, <<Param(BranchCol, StrCell(100))>>}

ExtraParams ==
    {Param(UnknownKey, WordValue), Param(StrLower(BegDateChars) \o BegSuffix, DateValue(2))}

FilterSets ==
    ValidFilters
    \cup {<<e>> \o f : e \in ExtraParams, f \in ValidFilters}
    \cup {f \o <<e>> : e \in ExtraParams, f \in ValidFilters}

FrameInit ==
    /\ StoreIdle /\ RefreshIdle /\ ReadIdle /\ SmartIdle /\ GetIdle /\ MoreIdle
    /\ PolicyIdle /\ PageIdle /\ ConfigIdle /\ LateIdle
    /\ fxOp = "drawn"
    /\ fxDf \in Frames
    /\ fxCode \in {NoAgency} \cup FrameCodes
    /\ fxFilters \in FilterSets
    /\ fxPrev = NoResult
    /\ fxOut = NoResult

FrameOthers ==
    <<policyVars, pageVars, storeVars, refreshVars, readVars, smartVars,
      getVars, endpointVars, poolVars, configVars, lateVars>>

\* services/report_service.py: get_report_payload from the frame on
FramePayload(df, filters, agency_code, page, page_size) ==
    LET prepared == _prepare_dataframe(df, filters, agency_code)
        paged == _paginate(prepared.df.rows, page, page_size)
    IN  [cols |-> prepared.df.cols,
         rows |-> dataframe_to_records(paged.rows),
         total_rows |-> paged.total_rows,
         total_pages |-> paged.total_pages]

\* A request with an agency code and no other parameter, all rows on one page
FrameScope ==
    /\ fxOp = "drawn"
    /\ fxFilters = NoFilters
    /\ fxOp' = "scoped"
    /\ fxPrev' = fxOut
    /\ fxOut' = FramePayload(fxDf, NoFilters, fxCode, 1, 0)
    /\ UNCHANGED <<fxDf, fxCode, fxFilters>>
    /\ UNCHANGED FrameOthers

\* A request with query parameters, page 1 of pages of one row
FrameRespond ==
    /\ fxOp = "drawn"
    /\ fxOp' = "responded"
    /\ fxPrev' = fxOut
    /\ fxOut' = FramePayload(fxDf, fxFilters, fxCode, 1, 1)
    /\ UNCHANGED <<fxDf, fxCode, fxFilters>>
    /\ UNCHANGED FrameOthers

\* The column renaming of the service ("service") or of api_v3 ("v3")
FrameRename(which, df) ==
    LET out == IF which = "service" THEN normalise_columns(df)
               ELSE process_dataframe(df).df
    IN  [cols |-> out.cols, rows |-> out.rows,
         total_rows |-> Len(out.rows), total_pages |-> 0]

OnceOp(which) == IF which = "service" THEN "once-service" ELSE "once-v3"
TwiceOp(which) == IF which = "service" THEN "twice-service" ELSE "twice-v3"

FrameNormalise(which) ==
    /\ fxOp = "drawn"
    /\ fxFilters = NoFilters
    /\ fxCode = NoAgency
    /\ fxOp' = OnceOp(which)
    /\ fxPrev' = fxOut
    /\ fxOut' = FrameRename(which, fxDf)
    /\ UNCHANGED <<fxDf, fxCode, fxFilters>>
    /\ UNCHANGED FrameOthers

FrameNormaliseAgain(which) ==
    /\ fxOp = OnceOp(which)
    /\ fxOp' = TwiceOp(which)
    /\ fxPrev' = fxOut
    /\ fxOut' = FrameRename(which, Table(fxOut.cols, fxOut.rows))
    /\ UNCHANGED <<fxDf, fxCode, fxFilters>>
    /\ UNCHANGED FrameOthers

FrameNext ==
    \/ FrameScope
    \/ FrameRespond
    \/ \E which \in {"service", "v3"} : FrameNormalise(which)
    \/ \E which \in {"service", "v3"} : FrameNormaliseAgain(which)

SpecFrame == FrameInit /\ [][FrameNext]_vars

----------------------------------------------------------------------------
(* Properties of the frame functions, under SpecFrame.                     *)

\* The agency/entity-code columns of a renamed table: the simplified name
\* is one of the hints or contains one
AgencyColumns(cols) ==
    {c \in 1..Len(cols) :
        \E hint \in _AGENCY_COLUMN_HINTS : Contains(Simplify(cols[c]), hint)}

\* The canonical string of an agency code: 100100 and 100100.0 are "100100"
CodeString(cell) == IF cell.k \in {"int", "float"} THEN StrCell(cell.v) ELSE cell

\* The records of the rows of df whose agency column holds the code
ScopedRecords(df, code) ==
    LET cands == AgencyColumns(normalise_columns(df).cols)
    IN  IF cands = {} THEN dataframe_to_records(df.rows)
        ELSE LET col == CHOOSE c \in cands : \A d \in cands : c <= d
                 kept == SelectSeq(df.rows, LAMBDA row : CodeString(row[col]) = StrCell(code))
             IN  dataframe_to_records(
                     [k \in 1..Len(kept) |->
                         [c \in 1..Len(kept[k]) |->
                             IF c = col THEN StrCell(code) ELSE kept[k][c]]])

\* C17: with an entity code supplied, the response holds exactly the rows
\* whose agency column equals the code as a string, the code written
\* without a decimal point (100100.0 matches and is output as "100100");
\* a table without an agency column loses no row
C17_ScopedToTheEntityCode ==
    (fxOp = "scoped" /\ fxCode # NoAgency)
        => fxOut.rows = ScopedRecords(fxDf, fxCode)

\* C18: applying the column renaming twice gives the column names that
\* applying it once gives
C18_RenamingIsIdempotent ==
    fxOp \in {"twice-service", "twice-v3"} => fxOut.cols = fxPrev.cols

Without(filters, n) ==
    [k \in 1..(Len(filters) - 1) |-> IF k < n THEN filters[k] ELSE filters[k + 1]]

\* The key is the name of no column of the table, whatever the case
MatchesNoColumn(cols, key) ==
    \A c \in 1..Len(cols) : StrLower(cols[c]) # StrLower(key)

\* The key is the start or the end of the range of a date column
IsDateRangeKey(key) ==
    \E k \in 1..Len(DATE_COLUMN_LIST) :
        StrLower(key) \in {StrLower(DATE_COLUMN_LIST[k]) \o BegSuffix,
                           StrLower(DATE_COLUMN_LIST[k]) \o EndSuffix}

\* C19 as stated: a parameter whose key is the name of no column is
\* ignored, the response has the rows, total_rows and total_pages of the
\* response without it
C19_AsStated ==
    fxOp = "responded"
        => \A n \in 1..Len(fxFilters) :
               MatchesNoColumn(fxOut.cols, fxFilters[n].key)
                   => fxOut = FramePayload(fxDf, Without(fxFilters, n), fxCode, 1, 1)

\* C19: a parameter whose key is neither the name of a column nor the
\* _beg_date / _end_date key of a date column is ignored, the response has
\* the rows, total_rows and total_pages of the response without it
C19_UnknownParameterIgnored ==
    fxOp = "responded"
        => \A n \in 1..Len(fxFilters) :
               (/\ MatchesNoColumn(fxOut.cols, fxFilters[n].key)
                /\ ~IsDateRangeKey(fxFilters[n].key))
                   => fxOut = FramePayload(fxDf, Without(fxFilters, n), fxCode, 1, 1)

\* An unknown parameter came with a filter that removed some rows and
\* kept others
C19_Witness ==
    /\ fxOp = "responded"
    /\ \E n \in 1..Len(fxFilters) : fxFilters[n].key = UnknownKey
    /\ \E n \in 1..Len(fxFilters) : fxFilters[n].key = AmountUpper
    /\ fxOut.total_rows = 1
    /\ Len(fxDf.rows) = MaxFrameRows

----------------------------------------------------------------------------
(* The configuration file under concurrent requests: the admin handlers    *)
(* load, change and save it, other requests load it.  The file holds the   *)
(* names of the entries of its top-level mapping; "whole" tells whether    *)
(* its bytes are one complete dump.                                        *)

FileOf(names, whole) == [names |-> names, whole |-> whole]

\* A file that was opened for writing and holds nothing yet
Truncated == FileOf({}, FALSE)

Loaded(ok, names) == [ok |-> ok, names |-> names]
NotLoaded == Loaded(FALSE, {"-"})

\* services/config_store.py: yaml.safe_load(handle) or {} on the bytes
\* that are in the file now; bytes that are not one complete dump parse
\* to what they hold or raise a YAMLError
load_config(file) ==
    IF file.whole \/ file.names = {} THEN {Loaded(TRUE, file.names)}
    ELSE {Loaded(TRUE, file.names), Loaded(FALSE, {})}

ConfigOthers ==
    <<policyVars, pageVars, storeVars, refreshVars, readVars, smartVars,
      getVars, endpointVars, poolVars, frameVars, lateVars>>

\* The other writers that have the file open lose their place in it
Disturbed(w, flushedOnly) ==
    [v \in Writers |->
        IF v # w /\ (wrPc[v] = "flushed" \/ (~flushedOnly /\ wrPc[v] = "opened"))
        THEN TRUE ELSE wrDirty[v]]

\* web/blueprints/config_admin.py add_or_update_config: config =
\* load_config() or {}; config[report_name] = new_entry.
\* EndpointConfigStore.create does the same with _load
AdminLoad(w) ==
    /\ wrPc[w] = "idle"
    /\ \E res \in load_config(cfFile) :
          IF res.ok
          THEN /\ wrData' = [wrData EXCEPT ![w] = res.names \cup {AddedBy[w]}]
               /\ wrPc' = [wrPc EXCEPT ![w] = "loaded"]
          ELSE /\ wrPc' = [wrPc EXCEPT ![w] = "failed"]
               /\ UNCHANGED wrData
    /\ UNCHANGED <<cfFile, cfWritten, cfLoad, cfLoads, wrDirty>>
    /\ UNCHANGED ConfigOthers

\* save_config: path.open("w") truncates the file
SaveOpen(w) ==
    /\ wrPc[w] = "loaded"
    /\ cfFile' = Truncated
    /\ cfWritten' = cfWritten \cup {wrData[w]}
    /\ wrPc' = [wrPc EXCEPT ![w] = "opened"]
    /\ wrDirty' = [Disturbed(w, TRUE) EXCEPT ![w] = FALSE]
    /\ UNCHANGED <<cfLoad, cfLoads, wrData>>
    /\ UNCHANGED ConfigOthers

\* save_config: yaml.safe_dump fills the buffer of the handle and a part
\* of the dump reaches the file before the rest
SaveFlush(w) ==
    /\ wrPc[w] = "opened"
    /\ \E part \in SUBSET wrData[w] :
          /\ part # {} /\ part # wrData[w]
          /\ cfFile' = FileOf(part, FALSE)
    /\ wrPc' = [wrPc EXCEPT ![w] = "flushed"]
    /\ wrDirty' = Disturbed(w, FALSE)
    /\ UNCHANGED <<cfWritten, cfLoad, cfLoads, wrData>>
    /\ UNCHANGED ConfigOthers

\* save_config: leaving the with block writes the rest and closes; bytes
\* another writer put into the file meanwhile stay where this dump does
\* not cover them
SaveClose(w, tail) ==
    /\ wrPc[w] \in {"opened", "flushed"}
    /\ tail => wrDirty[w]
    /\ cfFile' = FileOf(wrData[w], ~tail)
    /\ wrPc' = [wrPc EXCEPT ![w] = "done"]
    /\ wrDirty' = [Disturbed(w, FALSE) EXCEPT ![w] = FALSE]
    /\ UNCHANGED <<cfWritten, cfLoad, cfLoads, wrData>>
    /\ UNCHANGED ConfigOthers

\* Any other request: load_config() reads the file
ReaderLoad ==
    /\ cfLoads < MaxLoads
    /\ cfLoads' = cfLoads + 1
    /\ cfLoad' \in load_config(cfFile)
    /\ UNCHANGED <<cfFile, cfWritten, wrPc, wrData, wrDirty>>
    /\ UNCHANGED ConfigOthers

ConfigNext ==
    \/ \E w \in Writers :
          \/ AdminLoad(w)
          \/ SaveOpen(w)
          \/ SaveFlush(w)
          \/ \E tail \in BOOLEAN : SaveClose(w, tail)
    \/ ReaderLoad

SpecConfig == Init /\ [][ConfigNext]_vars

----------------------------------------------------------------------------
(* Properties of the configuration file, under SpecConfig.                 *)

\* C20: a load returns the complete configuration before a write or the
\* complete configuration after it, never an empty or truncated one, and
\* when two writers have each added a different entry the file holds both
C20_LoadsAreWholeAndWritesAreKept ==
    /\ cfLoad # NotLoaded => (cfLoad.ok /\ cfLoad.names \in cfWritten)
    /\ (\A w \in Writers : wrPc[w] = "done")
           => (cfFile.whole /\ \A w \in Writers : AddedBy[w] \in cfFile.names)

----------------------------------------------------------------------------
(* Clamping of the pagination arguments, under SpecPage.                   *)

\* The page a request is served: page_size <= 0 is one page of every row,
\* page < 1 is page 1
ClampedPage(n, page, page_size) ==
    LET size == IF page_size <= 0 THEN Max2(n, 1) ELSE page_size
        pg == IF page < 1 THEN 1 ELSE page
    IN  [rows |-> SelectSeq(PageTable(n),
                            LAMBDA k : (pg - 1) * size < k /\ k <= pg * size),
         total_pages |-> CeilDiv(n, size)]

\* C21: whatever page and page_size are, zero and negative included,
\* pagination does not raise; page_size <= 0 gives one page with every
\* row, page < 1 gives page 1, and total_pages is ceil(total_rows /
\* page_size) for the effective page size
C21_PaginationClamps ==
    (pgPhase = "asked" /\ pgVariant \in {"report_service", "api_v3"})
        => /\ pgLast.err = "-"
           /\ pgLast.rows = ClampedPage(pgN, pgPage, pgP).rows
           /\ pgLast.total_pages = ClampedPage(pgN, pgPage, pgP).total_pages

----------------------------------------------------------------------------
(* The retry loop of one per-entity fetch, under SpecPool.                 *)

\* The worker has backed off and is about to begin another attempt
Retried(w) == wkSlept[w] # NoSleep

\* C22: a per-entity fetch makes at most max_retries attempts, waits
\* min(base_delay * 2^attempt, max_delay) between attempts, retries only
\* failures that may pass, and gives up only after its last attempt
C22_RetriesAreBoundedAndTransientOnly ==
    \A w \in Workers :
        /\ wkAttempt[w] <= max_retries
        /\ Retried(w) =>
               /\ wkSlept[w].delay =
                      Min2(base_delay * (2 ^ (wkAttempt[w] - 2)), max_delay)
               /\ wkSlept[w].after # "permanent"
        /\ (wkPc[w] = "done" /\ wkLast[w] # "ok") => wkAttempt[w] = max_retries

----------------------------------------------------------------------------
(* Properties of the read requests interleaved with refresh runs, under    *)
(* Spec.                                                                   *)

Answered == rdPc = "responded"

\* C1: a request for a daily report whose cache read returned a table that
\* is present but empty is treated as a miss: it performs a live fetch and
\* does not answer with cache_hit = true or from the empty table.
C1_EmptyCachedTableIsAMiss ==
    ( /\ Answered
      /\ RequestPlan(rdReq).policy = CACHE_POLICY_DAILY
      /\ rdDf.present
      /\ IsEmpty(rdDf) )
    => (rdLive = 1 /\ ~rdResp.cache_hit)

\* The normalized result of a fetch with no filter: every row of the
\* source at some version
UnfilteredFrames ==
    [k \in CacheKeys |->
        { normalize_agency_code_columns(
              LET df == fetch_report_csv(k[1], NoAgency, k[3], ver)
              IN  Table([c \in 1..Len(df.cols) |-> _to_camel_no_tr(df.cols[c])],
                        df.rows)) : ver \in 0..MaxVer }]

\* The values stored under a key so far: hist keeps the source version of
\* each SET
StoredUnder(k) == {RefreshFrames[k[1], k[3], ver] : ver \in hist[k]}

ReadStep == rdPc' # rdPc

\* C5: every value ever stored under a key (report, "all", info_type) is the
\* normalized result of a source fetch with no filter and no paging, and no
\* step of a read request changes a cache entry or the metadata.
C5_CacheHoldsUnfilteredFrames ==
    /\ [](\A k \in CacheKeys :
             /\ StoredUnder(k) \subseteq UnfilteredFrames[k]
             /\ cache[k].present => cache[k] \in StoredUnder(k))
    /\ [][ReadStep => (cache' = cache /\ meta' = meta)]_vars

C5_Witness ==
    /\ Answered
    /\ rdReq = Req("reports_bp", "A", "detail", 2, 2, NoAgency)
    /\ rdResp.cache_hit
    /\ Len(rdResp.data) = 2
    /\ Len(cache[<<"A", "all", "detail">>].rows) = RowCount(1)
    /\ meta["A"].present

AsInRefreshThenRead ==
    /\ Answered
    /\ rdAfter
    /\ rdReq.handler = "reports_bp"
    /\ rdReq.page = 1
    /\ rdReq.page_size = 10
    /\ rdReq.agency = NoAgency
    /\ resolve_data_policy(ConfigFile[rdReq.report]) = DATA_POLICY_MICROSTRATEGY

\* C10: after a refresh returned with report R refreshed for info_type T
\* with at least one row, and before any later write of the key, a request
\* to get_report_payload for page 1 of R and T with page_size 10 reads the
\* key the refresher wrote, finds the frame the refresher
\* stored, performs no live fetch and answers cache_hit = true,
\* is_cached = true and at most 10 records.
C10_RefreshThenRead ==
    AsInRefreshThenRead =>
        /\ rdDf.present
        /\ rdDf \in StoredUnder(RefreshCacheKey(rdReq.report, rdReq.info_type))
        /\ rdLive = 0
        /\ rdResp.status = 200
        /\ rdResp.cache_hit
        /\ rdResp.is_cached
        /\ Len(rdResp.data) <= 10
        /\ Len(rdResp.data) = IF Len(rdDf.rows) < 10 THEN Len(rdDf.rows) ELSE 10

C10_Witness ==
    /\ AsInRefreshThenRead
    /\ Len(rdDf.rows) > 10
    /\ Len(rdResp.data) = 10
    /\ rdResp.cache_hit

\* The policy the handler of the request resolves for its report
ResolvedPolicy(req) ==
    IF req.handler = "reports_bp"
    THEN resolve_cache_policy(ConfigFile[req.report].policy)
    ELSE herald_resolve_cache_policy(ConfigFile[req.report].policy)

\* Every record of the response is a row of the frame the cache GET
\* returned: the measure of a row names report, info_type, version and row
FromSnapshot(data, df) ==
    \A k \in 1..Len(data) :
        \E j \in 1..Len(df.rows) : AsTypeStr(df.rows[j][2]) = data[k][2]

\* C11: in every successful response that carries the flags, is_cached is
\* true exactly when the resolved cache policy is "daily"; cache_hit is
\* true exactly when the records come from the frame the cache GET returned
\* and no live fetch was made; cache_hit implies is_cached; and with policy
\* "none" cache_hit is false and no cache GET was made.
C11_FlagsTellHowTheRowsWereServed ==
    (Answered /\ rdResp.status = 200 /\ rdResp.flags) =>
        /\ rdResp.cache_policy = ResolvedPolicy(rdReq)
        /\ rdResp.is_cached <=> (ResolvedPolicy(rdReq) = CACHE_POLICY_DAILY)
        /\ rdResp.cache_hit <=>
               (rdLive = 0 /\ rdReads = 1 /\ rdDf.present
                   /\ FromSnapshot(rdResp.data, rdDf))
        /\ ~rdResp.cache_hit => rdLive = 1
        /\ rdResp.cache_hit => rdResp.is_cached
        /\ ResolvedPolicy(rdReq) = CACHE_POLICY_NONE =>
               (~rdResp.cache_hit /\ rdReads = 0)

C11_Witness ==
    /\ Answered
    /\ rdReq.handler = "reports_bp"
    /\ rdResp.status = 200
    /\ rdResp.cache_hit
    /\ rdResp.is_cached
    /\ rdReads = 1
    /\ rdLive = 0
    /\ Len(rdResp.data) > 0

\* The info_type has no visualization or source mapping: a relational
\* report serves "summary" only, a MicroStrategy report the info_types whose
\* viz_keys entry is set
Unmapped(report, info_type) ==
    IF ConfigFile[report].postgres_table # NoParam
    THEN info_type # "summary"
    ELSE \A k \in 1..Len(ConfigFile[report].viz_keys) :
             ConfigFile[report].viz_keys[k][1] = info_type
                 => ConfigFile[report].viz_keys[k][2] = NoParam

\* C12: a request to fetch_report for a report name absent from the
\* configuration is answered 404, one for an info_type without a mapping is
\* answered 400, and neither makes a cache GET or a live fetch.
C12_ConfigurationErrorsTouchNothing ==
    (Answered /\ rdReq.handler = "reports_bp") =>
        /\ ~InConfig(rdReq.report) =>
               (rdResp.status = 404 /\ rdReads = 0 /\ rdLive = 0)
        /\ (InConfig(rdReq.report) /\ Unmapped(rdReq.report, rdReq.info_type)) =>
               (rdResp.status = 400 /\ rdReads = 0 /\ rdLive = 0)

C12_Witness ==
    /\ Answered
    /\ rdReq = Req("reports_bp", "N", "detail", 1, 10, NoAgency)
    /\ rdResp.status = 400
    /\ rdReads = 0
    /\ rdLive = 0
    /\ cache[RefreshCacheKey("A", "summary")].present

\* The reports read from a relational table
RelationalReports ==
    {r \in DOMAIN ConfigFile :
        resolve_data_policy(ConfigFile[r]) = DATA_POLICY_POSTGRESQL}

\* The run that has returned had the report among the reports to process,
\* over a connection that opened
ProcessedByRun(report) ==
    /\ rfPc = "returned"
    /\ connOpened = 1
    /\ \E k \in 1..Len(rfEligible) : rfEligible[k] = report

\* C15: when a refresh run that processed a daily report backed by a
\* relational table has returned, the report is in refreshed with the single
\* info_type "summary", and the key (report, "all", "summary"), which is the
\* key get_report_payload looks up for the report, holds the whole table.
C15_RelationalReportCachedUnderSummary ==
    \A report \in RelationalReports :
        ProcessedByRun(report) =>
            /\ report \in DOMAIN rfResult.refreshed
            /\ \E k \in 1..Len(rfLog) : rfLog[k] = <<report, "summary", "ok">>
            /\ ServicePlan(Req("reports_bp", report, "summary", 1, 10, NoAgency)).key
                   = RefreshCacheKey(report, "summary")
            /\ cache[RefreshCacheKey(report, "summary")].present
            /\ \E ver \in 0..srcVer :
                   Len(cache[RefreshCacheKey(report, "summary")].rows)
                       = Len(fetch_table_dataframe(report, ver).rows)

----------------------------------------------------------------------------
(* Properties of refresh_full_reports, under SpecRefresh.                  *)

RunEnded == rfPc \in {"returned", "raised"}

\* Every step of the run logged for the report had this outcome
StepsOf(report, outcome) ==
    \A k \in 1..Len(rfLog) : rfLog[k][1] = report => rfLog[k][3] = outcome

Listed(name) ==
    \/ name \in DOMAIN rfResult.refreshed
    \/ name \in DOMAIN rfResult.skipped
    \/ name \in DOMAIN rfResult.errors

\* C2: a run over the daily reports A and B, in either order, in which every
\* fetch for A raised and every step for B succeeded, returns a summary with
\* B in refreshed and A in errors, and has written B's cache entry and
\* metadata.
C2_FailureOfOneReportSparesTheOther ==
    ( /\ RunEnded
      /\ rfInput.given
      /\ rfInput.names \in {<<"A", "B">>, <<"B", "A">>}
      /\ connOpened = 1
      /\ StepsOf("A", "fetch_raises")
      /\ StepsOf("B", "ok") )
    => ( /\ rfPc = "returned"
         /\ "B" \in DOMAIN rfResult.refreshed
         /\ "A" \in DOMAIN rfResult.errors
         /\ \E k \in 1..Len(rfLog) : rfLog[k] = <<"B", "summary", "ok">>
         /\ cache[<<"B", "all", "summary">>] \in
               {RefreshFrames["B", "summary", ver] : ver \in 0..MaxVer}
         /\ meta["B"].present
         /\ meta["B"].refreshed_at = rfRun )

C2_Witness ==
    /\ rfPc = "returned"
    /\ rfInput.given
    /\ rfInput.names = <<"A", "B">>
    /\ rfLog = << <<"A", "summary", "fetch_raises">>,
                  <<"A", "detail", "fetch_raises">>,
                  <<"B", "summary", "ok">>, <<"B", "meta", "ok">> >>
    /\ "B" \in DOMAIN rfResult.refreshed
    /\ "A" \in DOMAIN rfResult.errors

\* C3: a refresh run never aborts early: whatever fails while one report is
\* processed (fetch, data SET, metadata SET), the run returns a summary, and
\* the summary lists every requested name in refreshed, skipped or errors.
C3_RunAlwaysReturnsCompleteSummary ==
    RunEnded =>
        /\ rfPc = "returned"
        /\ \A k \in 1..Len(rfResult.requested) : Listed(rfResult.requested[k])

\* C4: a run creates at most one connection, every fetch uses it while it is
\* open, it is closed exactly once on every exit path after its creation,
\* and a run with no eligible report creates none.
C4_OneConnectionClosedOnce ==
    /\ connOpened <= 1
    /\ fetchConns \subseteq {rfConn}
    /\ fetchConns # {} => connOpened = 1
    /\ rfPc \in {"report", "info", "meta", "closing"}
          => (connOpened = 1 /\ connClosed = 0)
    /\ RunEnded => connClosed = connOpened
    /\ (rfRun > 0 /\ rfEligible = <<>>) => connOpened = 0

C4_Witness ==
    /\ rfPc = "raised"
    /\ connOpened = 1
    /\ connClosed = 1
    /\ fetchConns = {1}
    /\ Len(rfLog) > 2

\* The info_types of the report whose step of this run had, or did not
\* have, the outcome "ok"
Succeeded(report) ==
    {rfLog[k][2] : k \in {j \in 1..Len(rfLog) :
        rfLog[j][1] = report /\ rfLog[j][2] # "meta" /\ rfLog[j][3] = "ok"}}

Failed(report) ==
    {rfLog[k][2] : k \in {j \in 1..Len(rfLog) :
        rfLog[j][1] = report /\ rfLog[j][2] # "meta" /\ rfLog[j][3] # "ok"}}

\* The metadata record of the report was written by this run
StoredByThisRun(report) ==
    meta[report].present /\ meta[report].refreshed_at = rfRun

\* errors[report] of the result holds a reason for the info_type
ReasonGiven(report, info_type) ==
    /\ report \in DOMAIN rfResult.errors
    /\ \E k \in 1..Len(rfResult.errors[report]) :
          rfResult.errors[report][k][1] = info_type

\* The run issued the SET of the report's metadata, with this outcome
MetaStep(report, outcome) ==
    \E k \in 1..Len(rfLog) : rfLog[k] = <<report, "meta", outcome>>

\* C13: when a run has ended, every report for which an info_type was
\* attempted had all its info_types attempted; the run issued the SET of
\* its metadata exactly when an info_type succeeded, and the record stored
\* has partial = true exactly when one failed as well; no record was stored
\* when none succeeded; and errors[report] of the run's result holds a
\* reason for every info_type that failed.
C13_PartialRefreshIsRecorded ==
    RunEnded =>
        \A report \in DOMAIN ConfigFile :
            (Succeeded(report) \cup Failed(report) # {}) =>
                /\ Succeeded(report) \cup Failed(report) =
                       {t \in InfoTypes :
                           \E k \in 1..Len(ConfiguredInfoTypes(ConfigFile[report])) :
                               ConfiguredInfoTypes(ConfigFile[report])[k] = t}
                /\ (MetaStep(report, "ok") \/ MetaStep(report, "set_raises"))
                       <=> (Succeeded(report) # {})
                /\ MetaStep(report, "ok") =>
                       /\ StoredByThisRun(report)
                       /\ meta[report].partial <=> (Failed(report) # {})
                /\ Succeeded(report) = {} => ~StoredByThisRun(report)
                /\ \A t \in Failed(report) : ReasonGiven(report, t)

----------------------------------------------------------------------------
(* Properties of the single-report refresh endpoint, under SpecEndpoint.   *)

EndpointAnswered == epRun > 0 /\ epRun = rfRun

\* C14: the answer of refresh_single is 200 when the run stored the
\* report's metadata, 400 when an info_type failed and none succeeded, 409
\* when the report's policy is not daily, and 404 when the name is not
\* configured and has no metadata.
C14_RefreshSingleStatus ==
    EndpointAnswered =>
        /\ (InConfig(epName) /\ StoredByThisRun(epName)) => epStatus = 200
        /\ (Failed(epName) # {} /\ Succeeded(epName) = {}) => epStatus = 400
        /\ (InConfig(epName) /\ ~IsDaily(epName)) => epStatus = 409
        /\ ~InConfig(epName) => epStatus = 404

----------------------------------------------------------------------------
(* Properties of the concurrent refresh mode, under SpecPool.              *)

\* The worker is between taking a slot and giving it back
HoldsSlot(w) == wkPc[w] \in {"slot", "wait", "conn", "getfail", "put", "closed"}

\* The workers that have a source connection in their hands
InUse == {w \in Workers : wkPc[w] = "conn"}

----------------------------------------------------------------------------
(* Properties of resolve_cache_policy, under SpecPolicy.                   *)

\* C7: resolve_cache_policy(cfg) returns 'none' or 'daily' and never raises,
\* for every input: None, {}, any legacy flag, and a cache_policy field that
\* is not a string.
C7_TotalNeverRaises ==
    pres \in {"unset", CACHE_POLICY_NONE, CACHE_POLICY_DAILY}

\* The result the stated precedence asks for: a valid explicit field wins;
\* otherwise 'daily' exactly when the legacy flag parses to an integer > 0.
ExplicitPolicy(cfg) ==
    IF cfg.cache_policy.t = "str"
    THEN StrLower(StrStrip(cfg.cache_policy.s))
    ELSE <<>>

StatedPolicy(cfg) ==
    IF cfg.kind = "dict" /\ ExplicitPolicy(cfg) = NoneChars THEN CACHE_POLICY_NONE
    ELSE IF cfg.kind = "dict" /\ ExplicitPolicy(cfg) = DailyChars THEN CACHE_POLICY_DAILY
    ELSE IF /\ cfg.kind = "dict"
            /\ PyIntOf(cfg.is_csv_cached).ok
            /\ PyIntOf(cfg.is_csv_cached).i > 0
         THEN CACHE_POLICY_DAILY
    ELSE CACHE_POLICY_NONE

\* C8: a cache_policy field that is 'none' or 'daily' once trimmed and
\* lower-cased is returned whatever is_csv_cached says; otherwise the result
\* is 'daily' exactly when is_csv_cached parses to an integer greater than 0
\* and 'none' in every other case (absent, unparsable, 0, negative).
C8_Precedence ==
    pres # "unset" => pres = StatedPolicy(pcfg)

----------------------------------------------------------------------------
(* Properties of the paginators, under SpecPage.                           *)

\* C9: for a table of N rows and page_size P > 0 the concatenation of pages
\* 1..ceil(N/P) is the original row sequence, and a page number greater than
\* ceil(N/P) yields an empty slice and no error.
C9_PagesPartitionRows ==
    /\ pgPhase = "walked" => pgAcc = PageTable(pgN)
    /\ (pgPhase = "asked" /\ pgP > 0 /\ pgPage > CeilDiv(pgN, pgP))
          => (pgLast.err = "-" /\ pgLast.rows = <<>>)

----------------------------------------------------------------------------
(* Properties of cache GETs interleaved with refreshes, under              *)
(* SpecSnapshot.                                                           *)

\* Complete snapshots that a refresh has written under the key
SnapshotsOf(key) ==
    IF key \in SmartKeys
    THEN smHist[key] \cap {SmartFrames[key, ver] : ver \in 0..MaxVer}
    ELSE StoredUnder(key)

\* C6: for every interleaving of refresh steps and cache GETs, a GET of a
\* key that had been written at least once returns one complete snapshot
\* written by some refresh: it is never absent and never anything else.
C6_ReadsSeeOneSnapshot ==
    (gtKey # NoKey /\ gtWritten) =>
        (gtVal.present /\ gtVal \in SnapshotsOf(gtKey))

\* A GET between the flush of new backup keys and the end of the promotion
\* that still sees the snapshot of the earlier run
C6_Witness ==
    /\ gtKey \in SmartKeys
    /\ gtWritten
    /\ smPc = "queued"
    /\ smQueue # <<>>
    /\ backup[gtKey].present
    /\ gtVal = active[gtKey]
    /\ gtVal # backup[gtKey]
    /\ gtVal.present

-----------------------------------------------------------------------------
(* The two polling loops that schedule refreshes: the cube-refresh monitor *)
(* of cache_refresher.py and run_service of full_report_service.py, each   *)
(* followed for one report.                                                *)

\* SKIP_HOURS of cache_refresher.py and SKIP_HOURS of full_report_service.py
MONITOR_SKIP_HOURS == {0, 1, 2, 3, 4, 18, 19, 20, 21, 22, 23}
SERVICE_SKIP_HOURS == {0, 1, 2, 3, 4, 5, 18, 20, 21, 22, 23}

SkipHoursOf(variant) ==
    IF variant = "monitor" THEN MONITOR_SKIP_HOURS ELSE SERVICE_SKIP_HOURS

SchedOthers ==
    <<policyVars, pageVars, storeVars, refreshVars, readVars, smartVars,
      getVars, endpointVars, poolVars, frameVars, configVars, pollVars,
      overlapVars, promoteVars, accessVars>>

\* One of the two loops is started
SchedStart(variant) ==
    /\ scVariant = "-"
    /\ scVariant' = variant
    /\ UNCHANGED <<scPc, scHour, scSource, scLast, scSeen, scAgencies>>
    /\ UNCHANGED SchedOthers

\* The source system refreshes the cube of the report
SourceRefreshes ==
    /\ scVariant # "-"
    /\ scSource < MaxStamp
    /\ scSource' = scSource + 1
    /\ UNCHANGED <<scVariant, scPc, scHour, scLast, scSeen, scAgencies>>
    /\ UNCHANGED SchedOthers

\* `if current_hour in SKIP_HOURS: ... continue`, up to the sleep
SkipCycle ==
    /\ scVariant # "-"
    /\ scPc = "top"
    /\ scHour \in SkipHoursOf(scVariant)
    /\ scPc' = "sleep"
    /\ UNCHANGED <<scVariant, scHour, scSource, scLast, scSeen, scAgencies>>
    /\ UNCHANGED SchedOthers

\* time.sleep(interval_seconds) and datetime.now() of the next cycle
SchedSleep(hour) ==
    /\ scPc = "sleep"
    /\ scPc' = "top"
    /\ scHour' = hour
    /\ scSeen' = NoStamp
    /\ scAgencies' = "-"
    /\ UNCHANGED <<scVariant, scSource, scLast>>
    /\ UNCHANGED SchedOthers

\* monitor_cube_refresh_changes: the timestamp of the cube is read and
\* compared with the recorded one; read = FALSE is an exception of
\* create_connection or get_cube_last_update_time
MonitorObserve(read) ==
    /\ scVariant = "monitor"
    /\ scPc = "top"
    /\ scHour \notin MONITOR_SKIP_HOURS
    /\ IF ~read
       THEN /\ scPc' = "sleep"
            /\ UNCHANGED <<scLast, scSeen>>
       ELSE /\ scSeen' = scSource
            /\ scLast' = IF scLast = NoStamp THEN scSource ELSE scLast
            /\ scPc' = IF scLast # scSource /\ scLast # NoStamp
                       THEN "codes" ELSE "sleep"
    /\ UNCHANGED <<scVariant, scHour, scSource, scAgencies>>
    /\ UNCHANGED SchedOthers

\* fetch_agency_codes(): the codes, or [] when the list cannot be fetched
MonitorCodes(codes) ==
    /\ scVariant = "monitor"
    /\ scPc = "codes"
    /\ scAgencies' = codes
    /\ scPc' = "refresh"
    /\ UNCHANGED <<scVariant, scHour, scSource, scLast, scSeen>>
    /\ UNCHANGED SchedOthers

\* refresh_report_smart returns and the timestamp is recorded, or it raises
\* and the except block logs the error
MonitorRefreshed(raised) ==
    /\ scVariant = "monitor"
    /\ scPc = "refresh"
    /\ scLast' = IF raised THEN scLast ELSE scSeen
    /\ scPc' = "sleep"
    /\ UNCHANGED <<scVariant, scHour, scSource, scSeen, scAgencies>>
    /\ UNCHANGED SchedOthers

\* run_service: refresh_full_reports() is called in every cycle outside
\* SKIP_HOURS
ServiceRefresh ==
    /\ scVariant = "run_service"
    /\ scPc = "top"
    /\ scHour \notin SERVICE_SKIP_HOURS
    /\ scPc' = "refresh"
    /\ UNCHANGED <<scVariant, scHour, scSource, scLast, scSeen, scAgencies>>
    /\ UNCHANGED SchedOthers

\* refresh_full_reports() returns or raises; either way the loop sleeps
ServiceRefreshed ==
    /\ scVariant = "run_service"
    /\ scPc = "refresh"
    /\ scPc' = "sleep"
    /\ UNCHANGED <<scVariant, scHour, scSource, scLast, scSeen, scAgencies>>
    /\ UNCHANGED SchedOthers

SchedNext ==
    \/ \E variant \in {"monitor", "run_service"} : SchedStart(variant)
    \/ SourceRefreshes
    \/ SkipCycle
    \/ \E hour \in Hours : SchedSleep(hour)
    \/ \E read \in BOOLEAN : MonitorObserve(read)
    \/ \E codes \in {"none", "some"} : MonitorCodes(codes)
    \/ \E raised \in BOOLEAN : MonitorRefreshed(raised)
    \/ ServiceRefresh
    \/ ServiceRefreshed

SpecSchedule == Init /\ [][SchedNext]_vars

\* C23: a polling cycle re-fetches the report only outside the quiet hours
\* and only when the timestamp of the source differs from the one recorded
\* for the report; the first observation records the timestamp without a
\* refresh; and the recorded timestamp is advanced only once the refresh of
\* the change has finished.
C23_RefetchOnlyOnTimestampChange ==
    /\ scPc = "refresh" =>
           /\ scHour \notin SkipHoursOf(scVariant)
           /\ scLast # NoStamp
           /\ scSeen # scLast
    /\ scPc = "codes" => scSeen # scLast

-----------------------------------------------------------------------------
(* The poll loop of the MicroStrategy CSV export, in the three fetchers    *)
(* that have it. Time is counted in poll intervals of 0.5 s.               *)

MaxTook == 2          \* longest POST of the export URL, in poll intervals

PollVariants == {"fetcher_v2", "reports", "cache_refresher"}

\* timeout = 90 (fetcher_v2.py, reports.py) and timeout = 35
\* (cache_refresher.py) seconds, in poll intervals
TimeoutOf(variant) == IF variant = "cache_refresher" THEN 2 * 35 ELSE 2 * 90

PollOthers ==
    <<policyVars, pageVars, storeVars, refreshVars, readVars, smartVars,
      getVars, endpointVars, poolVars, frameVars, configVars, schedVars,
      overlapVars, promoteVars, accessVars>>

\* start_time = time.time() in one of the fetchers
PollBegin(variant) ==
    /\ poPc = "idle"
    /\ poVariant' = variant
    /\ poPc' = "polling"
    /\ UNCHANGED <<poElapsed, poPolls, poTimedOut, poOut>>
    /\ UNCHANGED PollOthers

\* One iteration of fetcher_v2.fetch_report_csv and of
\* fetch_report_csv_controlled: every exception of the POST and of
\* raise_for_status() is caught; past the timeout it becomes a TimeoutError
PollCaught(answer, took) ==
    LET elapsed == poElapsed + took
    IN  /\ poPc = "polling"
        /\ poVariant \in {"fetcher_v2", "cache_refresher"}
        /\ poPolls' = poPolls + 1
        /\ IF answer = "ok"
           THEN /\ poPc' = "done"
                /\ poOut' = "ok"
                /\ poElapsed' = elapsed
                /\ UNCHANGED poTimedOut
           ELSE IF elapsed > TimeoutOf(poVariant)
           THEN /\ poPc' = "done"
                /\ poOut' = "TimeoutError"
                /\ poTimedOut' = TRUE
                /\ poElapsed' = elapsed
           ELSE /\ poElapsed' = elapsed + 1
                /\ UNCHANGED <<poPc, poOut, poTimedOut>>
        /\ UNCHANGED poVariant
        /\ UNCHANGED PollOthers

\* One iteration of reports.fetch_report_dataframe: an exception of the
\* POST escapes, a response that is not ok is polled again, and past the
\* timeout res.raise_for_status() raises the HTTPError of that response
PollStatus(answer, took) ==
    LET elapsed == poElapsed + took
    IN  /\ poPc = "polling"
        /\ poVariant = "reports"
        /\ poPolls' = poPolls + 1
        /\ IF answer = "ok"
           THEN /\ poPc' = "done"
                /\ poOut' = "ok"
                /\ poElapsed' = elapsed
                /\ UNCHANGED poTimedOut
           ELSE IF answer = "connection"
           THEN /\ poPc' = "done"
                /\ poOut' = "ConnectionError"
                /\ poElapsed' = elapsed
                /\ UNCHANGED poTimedOut
           ELSE IF elapsed > TimeoutOf(poVariant)
           THEN /\ poPc' = "done"
                /\ poOut' = "HTTPError"
                /\ poTimedOut' = TRUE
                /\ poElapsed' = elapsed
           ELSE /\ poElapsed' = elapsed + 1
                /\ UNCHANGED <<poPc, poOut, poTimedOut>>
        /\ UNCHANGED poVariant
        /\ UNCHANGED PollOthers

PollAnswers == {"ok", "status", "connection"}

PollNext ==
    \/ \E variant \in PollVariants : PollBegin(variant)
    \/ \E answer \in PollAnswers, took \in 0..MaxTook : PollCaught(answer, took)
    \/ \E answer \in PollAnswers, took \in 0..MaxTook : PollStatus(answer, took)

SpecPoll == Init /\ [][PollNext]_vars

\* C24: the poll loop makes a bounded number of polls, leaves only on a
\* successful poll or once the timeout has elapsed, and a loop that is left
\* because the timeout elapsed fails with a timeout error, which is neither
\* the connection error nor the HTTP error of a poll.
C24_PollLoopTimesOutDistinctly ==
    /\ poPolls <= TimeoutOf(poVariant) + 1
    /\ (poPc = "done" /\ poOut \notin {"ok", "ConnectionError"}) =>
           /\ poTimedOut
           /\ poElapsed > TimeoutOf(poVariant)
    /\ poTimedOut => poOut = "TimeoutError"

-----------------------------------------------------------------------------
(* Failures on the read path of web/blueprints/reports.py, under           *)
(* SpecService.                                                            *)

\* The requests that web/blueprints/reports.py serves
ServiceRequests == {req \in ServedRequests : req.handler = "reports_bp"}

\* The reports blueprint serving requests while the scheduled refresh runs
\* and the source changes
ServiceNext ==
    \/ /\ rfRun < ServedRuns
       /\ RefreshStart([given |-> FALSE, names |-> <<>>], TRUE)
    \/ RefreshReport
    \/ \E outcome \in ServedOutcomes : RefreshInfoType(outcome)
    \/ RefreshMeta(TRUE)
    \/ RefreshClose
    \/ srcVer < ServedVer /\ SourceUpdate
    \/ \E req \in ServiceRequests : ReadStart(req)
    \/ \E liveOk \in BOOLEAN : ReadFinish(liveOk)
    \/ ReadReturn

SpecService == Init /\ [][ServiceNext]_vars

\* A request of the reports blueprint gets its response in this step
ServiceAnswered ==
    /\ rdPc # "responded"
    /\ rdPc' = "responded"
    /\ rdReq'.handler = "reports_bp"

\* C25: a read request calls the live fetch at most once; when that call or
\* another step of get_report_payload raises, the response is the JSON error
\* with status 500; and the step that answers leaves the cache entries, the
\* metadata and the source as they were.
C25_OneLiveFetchAnd500 ==
    [][ServiceAnswered =>
           /\ rdLive' <= 1
           /\ storeVars' = storeVars
           /\ ReadFinish(FALSE) => (rdLive' = 1 /\ rdResp' = RespError(500)) ]_vars

C25_Witness ==
    /\ rdPc = "responded"
    /\ rdReq.handler = "reports_bp"
    /\ rdLive = 1
    /\ rdResp = RespError(500)
    /\ \E key \in DOMAIN cache : cache[key].present

-----------------------------------------------------------------------------
(* Two runs of refresh_full_reports that refresh the same report at the    *)
(* same time: the scheduled run of full_report_service.py and a run        *)
(* started by the admin route. Both work on the same Redis keys.           *)

OverlapReport == "A"

OverlapOthers ==
    <<policyVars, pageVars, refreshVars, readVars, smartVars, getVars,
      endpointVars, poolVars, frameVars, configVars, schedVars, pollVars,
      promoteVars, accessVars>>

\* The run reaches the report: info_types and an empty refreshed_meta
OverlapBegin(r) ==
    /\ ovPc[r] = "idle"
    /\ ovPc' = [ovPc EXCEPT ![r] = "info"]
    /\ ovTypes' = [ovTypes EXCEPT ![r] =
                       ConfiguredInfoTypes(ConfigFile[OverlapReport])]
    /\ ovMeta' = [ovMeta EXCEPT ![r] = <<>>]
    /\ ovFailed' = [ovFailed EXCEPT ![r] = FALSE]
    /\ UNCHANGED storeVars
    /\ UNCHANGED OverlapOthers

\* One pass of the loop over info_types: fetch, SET of the snapshot and the
\* entry of refreshed_meta, or the except block
OverlapInfoType(r, fetched) ==
    /\ ovPc[r] = "info"
    /\ ovTypes[r] # <<>>
    /\ IF fetched
       THEN \E df \in {RefreshFrames[OverlapReport, Head(ovTypes[r]), srcVer]} :
               /\ cache' = [cache EXCEPT
                      ![RefreshCacheKey(OverlapReport, Head(ovTypes[r]))] = df]
               /\ ovMeta' = [ovMeta EXCEPT ![r] = Append(@,
                      [info_type |-> Head(ovTypes[r]), rows |-> Len(df.rows),
                       columns |-> df.cols,
                       cache_key |-> RefreshCacheKey(OverlapReport, Head(ovTypes[r]))])]
               /\ UNCHANGED ovFailed
       ELSE /\ ovFailed' = [ovFailed EXCEPT ![r] = TRUE]
            /\ UNCHANGED <<cache, ovMeta>>
    /\ ovTypes' = [ovTypes EXCEPT ![r] = Tail(@)]
    /\ ovPc' = [ovPc EXCEPT ![r] = IF Tail(ovTypes[r]) = <<>> THEN "meta" ELSE "info"]
    /\ UNCHANGED <<meta, srcVer, hist>>
    /\ UNCHANGED OverlapOthers

\* SET of the metadata record when an info type was stored; the run is
\* through with the report
OverlapMeta(r) ==
    /\ ovPc[r] = "meta"
    /\ meta' = IF ovMeta[r] = <<>> THEN meta
               ELSE [meta EXCEPT ![OverlapReport] =
                        [present |-> TRUE, refreshed_at |-> 0,
                         info_types |-> ovMeta[r], partial |-> ovFailed[r]]]
    /\ ovPc' = [ovPc EXCEPT ![r] = "idle"]
    /\ ovTypes' = [ovTypes EXCEPT ![r] = <<>>]
    /\ ovMeta' = [ovMeta EXCEPT ![r] = <<>>]
    /\ ovFailed' = [ovFailed EXCEPT ![r] = FALSE]
    /\ UNCHANGED <<cache, srcVer, hist>>
    /\ UNCHANGED OverlapOthers

OverlapNext ==
    \/ \E r \in Runs : OverlapBegin(r)
    \/ \E r \in Runs, fetched \in BOOLEAN : OverlapInfoType(r, fetched)
    \/ \E r \in Runs : OverlapMeta(r)
    \/ SourceUpdate

SpecOverlap == Init /\ [][OverlapNext]_vars

\* The cache entry an entry of the metadata points to has the recorded rows
\* and columns
AgreesWithSnapshot(e) ==
    /\ cache[e.cache_key].present
    /\ Len(cache[e.cache_key].rows) = e.rows
    /\ cache[e.cache_key].cols = e.columns

\* C26: whenever no refresh run is in progress, every info type listed in
\* the stored metadata of a report has a cache entry under the listed key
\* with the recorded number of rows and the recorded columns, runs of the
\* same report that overlap included.
C26_MetadataAgreesWithSnapshots ==
    (\A r \in Runs : ovPc[r] = "idle") =>
        \A report \in DOMAIN meta :
            meta[report].present =>
                \A k \in 1..Len(meta[report].info_types) :
                    AgreesWithSnapshot(meta[report].info_types[k])

-----------------------------------------------------------------------------
(* The capacity of one SmartConnectionPool, under SpecPool.                *)

\* Connections of the pool of a report that are open: those in the queue
\* and those a worker holds
OpenConnections(r) ==
    plIdle[r] + Cardinality({w \in Workers : ReportOf(w) = r /\ wkPc[w] = "conn"})

\* C27: a pool never has more than pool_size connections open, and a
\* worker that holds a global slot waits for a connection of the pool only
\* when pool_size connections are open: connections closed after a failed
\* fetch do not count against the pool.
C27_ClosedConnectionsFreeCapacity ==
    \A w \in Workers :
        /\ OpenConnections(ReportOf(w)) <= PoolSize
        /\ wkPc[w] = "wait" => OpenConnections(ReportOf(w)) = PoolSize

-----------------------------------------------------------------------------
(* Two refresh_report_smart calls for the same report that overlap: the    *)
(* cube-refresh monitor and an admin-triggered refresh, each a process     *)
(* with its own BatchRedisProcessor, both on the same Redis keys.          *)

PromoteReport == CHOOSE r \in SnapshotReports : TRUE

PromoteKeys == {SmartKey(PromoteReport, a) : a \in AgencyCodes}

PromoteOthers ==
    <<policyVars, pageVars, refreshVars, readVars, getVars, endpointVars,
      poolVars, frameVars, configVars, schedVars, pollVars, overlapVars,
      accessVars>>

PromoteSmartRest == <<smPc, smRun, smReport, smTodo, smBatch, smQueue>>

\* refresh_report_smart starts: one worker per agency code
PromoteBegin(r) ==
    /\ pmPc[r] = "idle"
    /\ pmPc' = [pmPc EXCEPT ![r] = "workers"]
    /\ pmTodo' = [pmTodo EXCEPT ![r] = {AgencyList[k] : k \in 1..Len(AgencyList)}]
    /\ pmOk' = [pmOk EXCEPT ![r] = {}]
    /\ UNCHANGED <<pmBatch, pmQueue, active, backup, smHist, PromoteSmartRest>>
    /\ UNCHANGED <<storeVars, PromoteOthers>>

\* process_agency_worker of one agency: the backup SET is queued when the
\* fetch gave a frame with rows
PromoteWorker(r, agency, fetched) ==
    /\ pmPc[r] = "workers"
    /\ agency \in pmTodo[r]
    /\ pmTodo' = [pmTodo EXCEPT ![r] = @ \ {agency}]
    /\ \E df \in {SmartFrames[SmartKey(PromoteReport, agency), srcVer]} :
          IF fetched /\ ~IsEmpty(df)
          THEN /\ pmBatch' = [pmBatch EXCEPT ![r] =
                                 Append(@, SetOp(SmartKey(PromoteReport, agency), df))]
               /\ pmOk' = [pmOk EXCEPT ![r] = @ \cup {agency}]
          ELSE UNCHANGED <<pmBatch, pmOk>>
    /\ UNCHANGED <<pmPc, pmQueue, active, backup, smHist, PromoteSmartRest>>
    /\ UNCHANGED <<storeVars, PromoteOthers>>

\* redis_batch.flush() after the workers, then the exists() calls of
\* promote_backup_to_active_batch, which queue DEL and RENAME
PromoteFlushQueue(r, flushed) ==
    /\ pmPc[r] = "workers"
    /\ pmTodo[r] = {}
    /\ \E bak \in {IF flushed
                    THEN ExecuteAll(Store(active, backup, smHist), pmBatch[r]).backup
                    ELSE backup} :
          /\ backup' = bak
          /\ pmQueue' = [pmQueue EXCEPT ![r] =
                             PromoteCommands(PromoteReport, AgencyList, bak)]
    /\ pmBatch' = [pmBatch EXCEPT ![r] = <<>>]
    /\ pmPc' = [pmPc EXCEPT ![r] = "queued"]
    /\ UNCHANGED <<pmTodo, pmOk, active, smHist, PromoteSmartRest>>
    /\ UNCHANGED <<storeVars, PromoteOthers>>

\* pipe.execute(): the queued commands run as one MULTI/EXEC; a command
\* that fails does not undo the ones before it
PromoteExecute(r) ==
    /\ pmPc[r] = "queued"
    /\ \E st \in {ExecuteAll(Store(active, backup, smHist), pmQueue[r])} :
          /\ active' = st.active
          /\ backup' = st.backup
          /\ smHist' = st.hist
    /\ pmQueue' = [pmQueue EXCEPT ![r] = <<>>]
    /\ pmPc' = [pmPc EXCEPT ![r] = "idle"]
    /\ UNCHANGED <<pmTodo, pmOk, pmBatch, PromoteSmartRest>>
    /\ UNCHANGED <<storeVars, PromoteOthers>>

PromoteNext ==
    \/ \E r \in Runs : PromoteBegin(r)
    \/ \E r \in Runs, agency \in AgencyCodes, fetched \in BOOLEAN :
          PromoteWorker(r, agency, fetched)
    \/ \E r \in Runs, flushed \in BOOLEAN : PromoteFlushQueue(r, flushed)
    \/ \E r \in Runs : PromoteExecute(r)
    \/ SourceUpdate

SpecPromote == Init /\ [][PromoteNext]_vars

\* The promotion of refresh r happens in this step
Promotes(r) == pmPc[r] = "queued" /\ pmPc'[r] = "idle"

\* C28: an active key changes only to the backup stored under its own
\* backup key; the promotion of a refresh leaves the active key of an
\* agency it fetched nothing for as it is; and an active key that exists
\* before a step exists after it, also when two refreshes of the report
\* overlap.
C28_PromotionKeepsActiveKeys ==
    [][\A k \in PromoteKeys :
          /\ active'[k] # active[k] => active'[k] = backup[k]
          /\ active[k].present => active'[k].present
          /\ \A r \in Runs :
                (Promotes(r) /\ k \notin {SmartKey(PromoteReport, a) : a \in pmOk[r]})
                    => active'[k] = active[k] ]_vars

-----------------------------------------------------------------------------
(* A refresh run whose connection cannot be created, under SpecRefresh.    *)

\* A run starts with reports to process and returns in the same step:
\* create_connection() raised
ConnectionFailed ==
    /\ rfRun' = rfRun + 1
    /\ rfEligible' # <<>>
    /\ rfPc' # "report"

\* C29: a run that cannot create its connection changes no cache entry and
\* no metadata record, has every eligible report in errors and none in
\* refreshed, opens nothing and returns its summary.
C29_NoConnectionNoWrites ==
    [][ConnectionFailed =>
           /\ rfPc' = "returned"
           /\ cache' = cache
           /\ meta' = meta
           /\ DOMAIN rfResult'.refreshed = {}
           /\ \A k \in 1..Len(rfEligible') : rfEligible'[k] \in DOMAIN rfResult'.errors
           /\ connOpened' = 0 ]_vars

C29_Witness ==
    /\ rfPc = "returned"
    /\ rfConn = 0
    /\ Len(rfEligible) > 1
    /\ \A k \in 1..Len(rfEligible) : rfEligible[k] \in DOMAIN rfResult.errors
    /\ \E key \in DOMAIN cache : cache[key].present
    /\ \E report \in DOMAIN meta : meta[report].present

-----------------------------------------------------------------------------
(* services/access_logger.py: the AccessLog singleton used by the request  *)
(* threads. _lock is a threading.Lock, which is not reentrant.             *)

AccessOthers ==
    <<policyVars, pageVars, storeVars, refreshVars, readVars, smartVars,
      getVars, endpointVars, poolVars, frameVars, configVars, schedVars,
      pollVars, overlapVars, promoteVars>>

\* self._logs[-self.max_entries:]
LastEntries(logs) ==
    IF Len(logs) > MaxEntries
    THEN SubSeq(logs, Len(logs) - MaxEntries + 1, Len(logs))
    ELSE logs

\* set(log['endpoint_name'] for log in self._logs)
LoggedEndpoints(logs) == {logs[k] : k \in 1..Len(logs)}

\* total_requests of get_endpoint_stats
TotalRequests(logs, name) == Cardinality({k \in 1..Len(logs) : logs[k] = name})

\* log_request: append, trim and invalidate under the lock
LogRequest(t, name) ==
    /\ alPc[t] = "idle"
    /\ alLock = 0
    /\ alLogs' = LastEntries(Append(alLogs, name))
    /\ alFresh' = FALSE
    /\ UNCHANGED <<alLock, alPc, alNames, alCall, alStats, alCache>>
    /\ UNCHANGED AccessOthers

\* get_all_stats up to `with self._lock`: the cached statistics are
\* returned while they are fresh
AllStatsCall(t) ==
    /\ alPc[t] = "idle"
    /\ alPc' = [alPc EXCEPT ![t] = IF alFresh THEN "idle" ELSE "all_lock"]
    /\ alStats' = [alStats EXCEPT ![t] = IF alFresh THEN alCache ELSE {}]
    /\ UNCHANGED <<alLogs, alLock, alNames, alCall, alCache, alFresh>>
    /\ UNCHANGED AccessOthers

\* get_all_stats acquires the lock and collects the endpoint names
AllStatsLock(t) ==
    /\ alPc[t] = "all_lock"
    /\ alLock = 0
    /\ alLock' = t
    /\ alNames' = [alNames EXCEPT ![t] = LoggedEndpoints(alLogs)]
    /\ alPc' = [alPc EXCEPT ![t] = "all_loop"]
    /\ UNCHANGED <<alLogs, alCall, alStats, alCache, alFresh>>
    /\ UNCHANGED AccessOthers

\* The loop of get_all_stats: self.get_endpoint_stats(name) for the next
\* name, or the cache is filled, the lock released and stats returned
AllStatsStep(t) ==
    /\ alPc[t] = "all_loop"
    /\ IF alNames[t] = {}
       THEN /\ alCache' = alStats[t]
            /\ alFresh' = TRUE
            /\ alLock' = 0
            /\ alPc' = [alPc EXCEPT ![t] = "idle"]
            /\ UNCHANGED <<alNames, alCall>>
       ELSE /\ \E name \in alNames[t] :
                  alCall' = [alCall EXCEPT ![t] = [name |-> name, nested |-> TRUE]]
            /\ alPc' = [alPc EXCEPT ![t] = "ep_lock"]
            /\ UNCHANGED <<alNames, alCache, alFresh, alLock>>
    /\ UNCHANGED <<alLogs, alStats>>
    /\ UNCHANGED AccessOthers

\* get_endpoint_stats called by a request handler
EndpointStatsCall(t, name) ==
    /\ alPc[t] = "idle"
    /\ alCall' = [alCall EXCEPT ![t] = [name |-> name, nested |-> FALSE]]
    /\ alPc' = [alPc EXCEPT ![t] = "ep_lock"]
    /\ UNCHANGED <<alLogs, alLock, alNames, alStats, alCache, alFresh>>
    /\ UNCHANGED AccessOthers

\* get_endpoint_stats: `with self._lock`, the statistics of the endpoint,
\* and the return to the caller
EndpointStats(t) ==
    /\ alPc[t] = "ep_lock"
    /\ alLock = 0
    /\ IF alCall[t].nested
       THEN /\ alStats' = [alStats EXCEPT ![t] =
                  @ \cup {<<alCall[t].name, TotalRequests(alLogs, alCall[t].name)>>}]
            /\ alNames' = [alNames EXCEPT ![t] = @ \ {alCall[t].name}]
            /\ alPc' = [alPc EXCEPT ![t] = "all_loop"]
       ELSE /\ alStats' = [alStats EXCEPT ![t] =
                  {<<alCall[t].name, TotalRequests(alLogs, alCall[t].name)>>}]
            /\ alPc' = [alPc EXCEPT ![t] = "idle"]
            /\ UNCHANGED alNames
    /\ alCall' = [alCall EXCEPT ![t] = NoCall]
    /\ UNCHANGED <<alLogs, alLock, alCache, alFresh>>
    /\ UNCHANGED AccessOthers

AccessNext ==
    \E t \in AccessThreads :
        \/ \E name \in EndpointNames : LogRequest(t, name)
        \/ AllStatsCall(t)
        \/ AllStatsLock(t)
        \/ AllStatsStep(t)
        \/ \E name \in EndpointNames : EndpointStatsCall(t, name)
        \/ EndpointStats(t)

SpecAccessLog == Init /\ [][AccessNext]_vars

\* The thread waits for a lock that it holds itself
WaitsForItself(t) == alPc[t] = "ep_lock" /\ alLock = t

\* C30: no thread of get_all_stats ends up waiting for the lock it holds,
\* the statistics it caches have one record for each endpoint with a logged
\* request, and the log never holds more than max_entries entries.
C30_AllStatsReturns ==
    /\ \A t \in AccessThreads : ~WaitsForItself(t)
    /\ alFresh =>
           alCache = {<<name, TotalRequests(alLogs, name)>> :
                          name \in LoggedEndpoints(alLogs)}
    /\ Len(alLogs) <= MaxEntries

====
